---- MODULE Spec2Model ----
(***************************************************************************)
(* photoTidy: scan -> plan -> execute -> undo over a persistent store.      *)
(* Strings are sequences of one-character strings so that the planner's    *)
(* name arithmetic (split at '_', rsplit at '.', concatenation) and the    *)
(* scanner's orderings are computed as the code computes them.             *)
(***************************************************************************)
EXTENDS Integers, Sequences, FiniteSets, TLC

\* ------------------------------------------------------------------ bounds
MaxCalls == 4       \* stage invocations (scan, plan, execute, undo) in one behaviour
MaxEnv == 1         \* disturbances in one behaviour: changes the user makes to
                    \* the disk between invocations, and calls that fail

\* --------------------------------------------------------------- constants
DB_VERSION == 3
SCHEMA_VERSION == 1
PLAN_SCHEMA_VERSION == 1

\* Option::None of an optional string
None == <<"none">>

\* ----------------------------------------------------------------- strings
Code(c) ==
    CASE c = "." -> 46 [] c = "/" -> 47 [] c = "0" -> 48 [] c = "1" -> 49
      [] c = "2" -> 50 [] c = "A" -> 65 [] c = "B" -> 66 [] c = "D" -> 68
      [] c = "I" -> 73 [] c = "O" -> 79 [] c = "_" -> 95 [] c = "d" -> 100
      [] c = "j" -> 106 [] c = "p" -> 112 [] c = "t" -> 116 [] c = "u" -> 117
      [] c = "x" -> 120 [] OTHER -> 0

RECURSIVE StrCmp(_, _)
StrCmp(a, b) ==
    IF a = <<>> THEN (IF b = <<>> THEN 0 ELSE -1)
    ELSE IF b = <<>> THEN 1
    ELSE IF Code(Head(a)) < Code(Head(b)) THEN -1
    ELSE IF Code(Head(a)) > Code(Head(b)) THEN 1
    ELSE StrCmp(Tail(a), Tail(b))

IsPrefix(p, s) == Len(p) <= Len(s) /\ SubSeq(s, 1, Len(p)) = p

\* index of the first / last occurrence of character c in s, 0 when absent
FirstIndex(s, c) ==
    IF \E i \in 1..Len(s) : s[i] = c
    THEN CHOOSE i \in 1..Len(s) : s[i] = c /\ \A j \in 1..(i - 1) : s[j] # c
    ELSE 0

LastIndex(s, c) ==
    IF \E i \in 1..Len(s) : s[i] = c
    THEN CHOOSE i \in 1..Len(s) : s[i] = c /\ \A j \in (i + 1)..Len(s) : s[j] # c
    ELSE 0

\* decimal rendering of a small natural (format!("{attempt}"))
Digit(n) == CASE n = 0 -> "0" [] n = 1 -> "1" [] n = 2 -> "2" [] n = 3 -> "3"
              [] n = 4 -> "4" [] n = 5 -> "5" [] n = 6 -> "6" [] n = 7 -> "7"
              [] n = 8 -> "8" [] OTHER -> "9"

RECURSIVE to_string(_)
to_string(n) == IF n < 10 THEN <<Digit(n)>> ELSE to_string(n \div 10) \o <<Digit(n % 10)>>

\* ------------------------------------------------------ 64-bit quantities
\* a u64 (file sizes, byte totals) is kept as four 16-bit limbs, most
\* significant first, so that the store's signed 64-bit limit is a real limit
u64_of(n) == << 0, 0, n \div 65536, n % 65536 >>

\* u64 addition, wrapping at 2^64
u64_add(a, b) ==
    LET s4 == a[4] + b[4]
        s3 == a[3] + b[3] + (s4 \div 65536)
        s2 == a[2] + b[2] + (s3 \div 65536)
        s1 == a[1] + b[1] + (s2 \div 65536)
    IN  << s1 % 65536, s2 % 65536, s3 % 65536, s4 % 65536 >>

\* i64::try_from(u64) succeeds when the top bit is clear
i64_try_from(v) == v[1] < 32768

\* ------------------------------------------------------------------- paths
image_root == <<"I">>
output_root == <<"O">>
duplicates_dir == output_root \o <<"/", "D">>
image_exts == {<<".", "j">>}

join(dir, name) == dir \o <<"/">> \o name

ensure_trailing_separator(p) ==
    IF p = <<>> THEN <<>>
    ELSE IF p[Len(p)] = "/" THEN p ELSE p \o <<"/">>

\* Path::file_name: the last component
path_file_name(p) == SubSeq(p, LastIndex(p, "/") + 1, Len(p))

\* Path::parent: everything before the last separator
path_parent(p) == SubSeq(p, 1, LastIndex(p, "/") - 1)

\* Path::extension of the last component, with its dot; <<>> when there is none
path_extension(p) ==
    LET n == path_file_name(p)
        k == LastIndex(n, ".")
    IN  IF k <= 1 THEN <<>> ELSE SubSeq(n, k, Len(n))

matches_extension(p, exts) == path_extension(p) \in exts

\* PathBuf ordering compares component by component
RECURSIVE PathCmp(_, _)
PathCmp(a, b) ==
    LET ka == FirstIndex(a, "/")
        kb == FirstIndex(b, "/")
        ha == IF ka = 0 THEN a ELSE SubSeq(a, 1, ka - 1)
        hb == IF kb = 0 THEN b ELSE SubSeq(b, 1, kb - 1)
        c  == StrCmp(ha, hb)
    IN  IF c # 0 THEN c
        ELSE IF ka = 0 /\ kb = 0 THEN 0
        ELSE IF ka = 0 THEN -1
        ELSE IF kb = 0 THEN 1
        ELSE PathCmp(SubSeq(a, ka + 1, Len(a)), SubSeq(b, kb + 1, Len(b)))

\* the files the user keeps under the image root
RelPaths ==
    { <<"A", "/", "x", ".", "j">>,
      <<"A", "/", "x", "_", "d", "u", "p", "1", ".", "j">>,
      <<"B", "/", "x", ".", "j">> }

\* a file of another type that sits beside them and is never scanned
NotePath == join(image_root, <<"B", "/", "x", ".", "t">>)

RootPaths == { join(image_root, r) : r \in RelPaths }

\* the two of them that share a file name
TwinPaths == { p \in RootPaths : path_file_name(p) = <<"x", ".", "j">> }

\* -------------------------------------------------------------- timestamps
\* "[year]-[month]-[day]_[hour]-[minute]-[second]", shortened to <date>_<time>
T1 == <<"1", "_", "0">>
T2 == <<"2", "_", "0">>
Times == {T1, T2}
\* the clock reading a copy stamps on the file it creates
NowTime == T2

\* ---------------------------------------------------------------- contents
Contents == {"c1", "c2", "c3"}

md5_file(c) == CASE c = "c1" -> "h1" [] c = "c2" -> "h2" [] OTHER -> "h3"
blake3_file(c) == CASE c = "c1" -> <<"b1">> [] c = "c2" -> <<"b2">> [] OTHER -> <<"b3">>
metadata_len(c) == CASE c = "c1" -> u64_of(3) [] c = "c2" -> u64_of(6) [] OTHER -> u64_of(3)

\* embedded capture metadata: only c2 carries EXIF
extract_exif(c) ==
    IF c = "c2" THEN [captured_at |-> T1, camera_model |-> <<"cam">>]
    ELSE [captured_at |-> None, camera_model |-> None]

\* ------------------------------------------------------------------- state
VARIABLES
    fs,       \* files on disk: absolute path -> [content, mtime]
    dirs,     \* directories on disk
    inv,      \* media_inventory rows, in row order
    plan,     \* plan_entries rows, in id order
    log,      \* operation_logs rows, in id order
    meta,     \* app_meta
    nextId,   \* the next AUTOINCREMENT id of plan_entries
    run,      \* the execute or undo pass in progress; clean: it found every
              \* origin present and no target, and no I/O call of it has failed;
              \* ready: how many entries it found with their origin present and
              \* their target free; calm: no I/O call of it has failed
    last,     \* the summary the most recent invocation returned
    seen,     \* what the last successful scan saw on disk: path -> [size, mtime]
    snap,     \* files, directories and plan as a move execution found them
    progress, \* the last payload each stage of the latest invocation emitted
    user_version, \* PRAGMA user_version of the store file
    reply,    \* what the latest call returned when it was a read of the plan entries
    plan_json, \* the text of the file at target_plan_path, <<>> before it exists
    guard,    \* the thread that holds the Mutex around the connection, if any
    waiting,  \* the reads other threads have called and not yet got back: the
              \* call -> whether it found the Mutex held
    txn,      \* the transaction open on the connection: what it replaces, the
              \* rows it has still to insert, and the contents a rollback restores
    pass,     \* the run_execution call of each worker thread, statement by statement
    foreign_keys, \* whether the SQLite library of the build enforces foreign keys
    hashing,  \* the hashing fan-out of a scan: the shared counter, what each
              \* worker holds, and the payloads delivered to the callback
    calls, envOps, faults

vars == <<fs, dirs, inv, plan, log, meta, nextId, run, last, seen, snap,
          progress, user_version, reply, plan_json, guard, txn, waiting, pass,
          foreign_keys, hashing, calls, envOps, faults>>

\* the behaviour has not used up its disturbances
MayDisturb == envOps + faults < MaxEnv

Range(s) == { s[i] : i \in 1..Len(s) }

\* ---------------------------------------------------------------- progress
\* no callback has been made
NoProgress == [ stage \in {} |-> 0 ]

\* emit_progress: the callback receives {stage, processed, total, current};
\* of each stage the payload of the latest call is kept
emit_progress(observed, stage, processed, total, current) ==
    [ s \in DOMAIN observed \cup {stage} |->
        IF s = stage
        THEN [ processed |-> processed, total |-> total, current |-> current ]
        ELSE observed[s] ]

\* ------------------------------------------------------ store, inventory
\* the statement of a replace transaction that fails, 0 when none does: the
\* insert of the first row whose size does not fit, or the statement db_fail
\* the store itself gives up at (Len(rows) + 1 is the commit)
first_failure(rows, db_fail) ==
    LET bad == { i \in 1..Len(rows) : ~i64_try_from(rows[i].file_size) }
                 \cup (IF db_fail = 0 THEN {} ELSE {db_fail})
    IN  IF bad = {} THEN 0 ELSE CHOOSE i \in bad : \A j \in bad : i <= j

\* variant: a replace outside a transaction, the rows written so far stay
replace_inventory_no_rollback(stored, records, db_fail) ==
    LET k == first_failure(records, db_fail)
    IN  IF k # 0 THEN [ ok |-> FALSE, inventory |-> SubSeq(records, 1, k - 1) ]
        ELSE [ ok |-> TRUE, inventory |-> records ]

\* variant: a replace without the DELETE, the rows of other paths stay
replace_inventory_without_delete(stored, records, db_fail) ==
    IF first_failure(records, db_fail) # 0
    THEN [ ok |-> FALSE, inventory |-> stored ]
    ELSE [ ok |-> TRUE,
           inventory |-> SelectSeq(stored,
                             LAMBDA old : \A i \in 1..Len(records) :
                                 records[i].relative_path # old.relative_path)
                         \o records ]

\* Database::replace_inventory: one transaction, rolled back when it is
\* dropped on an error
replace_inventory(stored, records, db_fail) ==
    IF first_failure(records, db_fail) # 0
    THEN [ ok |-> FALSE, inventory |-> stored ]
    ELSE [ ok |-> TRUE, inventory |-> records ]

\* -------------------------------------------------------------------- scan
\* files.sort() over the enumerated paths
RECURSIVE sort_paths(_)
sort_paths(S) ==
    IF S = {} THEN <<>>
    ELSE LET m == CHOOSE x \in S : \A y \in S : PathCmp(x, y) <= 0
         IN  <<m>> \o sort_paths(S \ {m})

enumerate_files(disk, dd, root, exts) ==
    IF root \notin dd THEN <<>>
    ELSE sort_paths({ p \in DOMAIN disk :
                        IsPrefix(root \o <<"/">>, p) /\ matches_extension(p, exts) })

build_snapshots(disk, root, files) ==
    [ i \in 1..Len(files) |->
        [ absolute_path |-> files[i],
          relative_path |-> SubSeq(files[i], Len(root) + 2, Len(files[i])),
          file_name     |-> path_file_name(files[i]),
          file_size     |-> metadata_len(disk[files[i]].content),
          modified_at   |-> disk[files[i]].mtime ] ]

\* HashMap collected from the stored rows: a later row replaces an earlier one
existing_map(records) ==
    [ p \in { r.relative_path : r \in Range(records) } |->
        records[CHOOSE i \in 1..Len(records) :
                    /\ records[i].relative_path = p
                    /\ \A j \in (i + 1)..Len(records) : records[j].relative_path # p] ]

\* variant: a cache-hit rule that does not look at the size
cache_hit_ignores_size(existing, snapshot) ==
    /\ existing.modified_at = snapshot.modified_at
    /\ existing.blake3_hash # None

\* variant: a cache-hit rule that reuses only records without a BLAKE3 hash
cache_hit_wants_no_hash(existing, snapshot) ==
    /\ existing.file_size = snapshot.file_size
    /\ existing.modified_at = snapshot.modified_at
    /\ existing.blake3_hash = None

cache_hit(existing, snapshot) ==
    /\ existing.file_size = snapshot.file_size
    /\ existing.modified_at = snapshot.modified_at
    /\ existing.blake3_hash # None

reuse(existing, snapshot) ==
    [ existing EXCEPT !.file_name = snapshot.file_name,
                      !.relative_path = snapshot.relative_path,
                      !.file_size = snapshot.file_size,
                      !.modified_at = snapshot.modified_at,
                      !.is_duplicate = FALSE ]

\* the reconciliation loop: [reused, to_process, skipped]
RECURSIVE reconcile(_, _, _)
reconcile(snapshots, emap, acc) ==
    IF snapshots = <<>> THEN acc
    ELSE LET s == Head(snapshots)
             found == s.relative_path \in DOMAIN emap
             rest == [ p \in DOMAIN emap \ {s.relative_path} |-> emap[p] ]
         IN  IF found /\ cache_hit(emap[s.relative_path], s)
             THEN reconcile(Tail(snapshots), rest,
                            [ acc EXCEPT !.reused = Append(@, reuse(emap[s.relative_path], s)),
                                         !.skipped = @ + 1 ])
             ELSE reconcile(Tail(snapshots), rest,
                            [ acc EXCEPT !.to_process = Append(@, s) ])

hash_one(disk, snapshot) ==
    LET c == disk[snapshot.absolute_path].content
        exif == extract_exif(c)
    IN  [ file_hash     |-> md5_file(c),
          blake3_hash   |-> blake3_file(c),
          file_size     |-> snapshot.file_size,
          file_name     |-> snapshot.file_name,
          relative_path |-> snapshot.relative_path,
          captured_at   |-> IF exif.captured_at # None THEN exif.captured_at
                            ELSE snapshot.modified_at,
          modified_at   |-> snapshot.modified_at,
          exif_model    |-> exif.camera_model,
          is_duplicate  |-> FALSE ]

\* variant: a fan-out that drops the file it cannot hash and keeps the rest
hash_and_extract_skips_failed(disk, snapshots, bad) ==
    LET good == SelectSeq(snapshots, LAMBDA x : x.absolute_path # bad)
    IN  [ ok |-> TRUE, records |-> [ i \in 1..Len(good) |-> hash_one(disk, good[i]) ] ]

\* the fan-out collected into one Result: the file at path bad cannot be read
hash_and_extract(disk, snapshots, bad) ==
    IF \E i \in 1..Len(snapshots) : snapshots[i].absolute_path = bad
    THEN [ ok |-> FALSE, records |-> <<>> ]
    ELSE [ ok |-> TRUE,
           records |-> [ i \in 1..Len(snapshots) |-> hash_one(disk, snapshots[i]) ] ]

sort_key(r) == IF r.captured_at # None THEN r.captured_at ELSE r.modified_at

\* variant: a comparison that takes the modification time as the only key
record_cmp_by_modified(a, b) ==
    LET c == StrCmp(a.modified_at, b.modified_at)
    IN  IF c # 0 THEN c ELSE StrCmp(a.relative_path, b.relative_path)

record_cmp(a, b) ==
    LET c == StrCmp(sort_key(a), sort_key(b))
    IN  IF c # 0 THEN c ELSE StrCmp(a.relative_path, b.relative_path)

\* variant: a marking that keeps the first record of the timestamp order
mark_duplicates_in_sorted_order(records) ==
    [ i \in 1..Len(records) |->
        [ records[i] EXCEPT !.is_duplicate =
            \E j \in 1..Len(records) :
                /\ records[j].file_hash = records[i].file_hash
                /\ record_cmp(records[j], records[i]) < 0 ] ]

\* variant: a marking that compares paths instead of legacy hashes
mark_duplicates_by_path(records) ==
    [ i \in 1..Len(records) |->
        [ records[i] EXCEPT !.is_duplicate =
            \E j \in 1..(i - 1) : records[j].relative_path = records[i].relative_path ] ]

\* first occurrence of a legacy hash stays, every later one is flagged
mark_duplicates(records) ==
    [ i \in 1..Len(records) |->
        [ records[i] EXCEPT !.is_duplicate =
            \E j \in 1..(i - 1) : records[j].file_hash = records[i].file_hash ] ]

count_duplicates(records) ==
    Cardinality({ i \in 1..Len(records) : records[i].is_duplicate })

\* all_records.sort_by(..): a stable sort
RECURSIVE sort_records(_)
sort_records(s) ==
    IF Len(s) <= 1 THEN s
    ELSE LET rest == sort_records(SubSeq(s, 1, Len(s) - 1))
             x == s[Len(s)]
             k == Cardinality({ i \in 1..Len(rest) : record_cmp(rest[i], x) <= 0 })
         IN  SubSeq(rest, 1, k) \o <<x>> \o SubSeq(rest, k + 1, Len(rest))

\* what can go wrong in one invocation: nothing, the hashing of one file, or
\* a statement of the store
NoFault == [ kind |-> "none", path |-> <<>>, at |-> 0 ]
HashFault(p) == [ kind |-> "hash", path |-> p, at |-> 0 ]
DbFault(k) == [ kind |-> "db", path |-> <<>>, at |-> k ]

ScanError(inventory, observed, error) ==
    [ ok |-> FALSE, error |-> error, inventory |-> inventory, progress |-> observed,
      total_files |-> 0, hashed_files |-> 0, skipped_files |-> 0,
      duplicate_files |-> 0 ]

\* variant: a scan that finds no file and leaves the stored inventory alone
scan_nothing_keeps_inventory(inventory, walked, db_fail) ==
    [ ok |-> TRUE, error |-> "null", inventory |-> inventory,
      progress |-> emit_progress(emit_progress(emit_progress(walked,
                       "scan", 0, 0, None), "diff", 0, 0, None), "hash", 0, 0, None),
      total_files |-> 0, hashed_files |-> 0, skipped_files |-> 0,
      duplicate_files |-> 0 ]

\* perform_scan when enumerate_files returns no file: the inventory is
\* replaced by the empty one, the three stages report (0, 0, none)
scan_nothing(inventory, walked, db_fail) ==
    LET emptied == replace_inventory(inventory, <<>>, db_fail)
    IN  IF ~emptied.ok THEN ScanError(inventory, walked, "store")
        ELSE [ ok |-> TRUE, error |-> "null", inventory |-> emptied.inventory,
               progress |-> emit_progress(emit_progress(emit_progress(walked,
                                "scan", 0, 0, None), "diff", 0, 0, None),
                                "hash", 0, 0, None),
               total_files |-> 0, hashed_files |-> 0, skipped_files |-> 0,
               duplicate_files |-> 0 ]

\* perform_scan as a function of the disk, the stored inventory and the
\* fault it meets: the result and the inventory it leaves
perform_scan(disk, dd, inventory, fault) ==
    LET files == enumerate_files(disk, dd, image_root, image_exts)
        snapshots == build_snapshots(disk, image_root, files)
        rec == reconcile(snapshots, existing_map(inventory),
                         [reused |-> <<>>, to_process |-> <<>>, skipped |-> 0])
        hashed == hash_and_extract(disk, rec.to_process, fault.path)
        marked == mark_duplicates(rec.reused \o hashed.records)
        stored == replace_inventory(inventory, sort_records(marked), fault.at)
        \* enumerate_files reports nothing when the root is missing
        walked == IF image_root \notin dd THEN NoProgress
                  ELSE emit_progress(NoProgress, "scan", Len(files), Len(files), None)
        \* hash_and_extract makes its closing call before it returns the error
        observed == emit_progress(emit_progress(walked,
                        "diff", rec.skipped, Len(snapshots), None),
                        "hash", Len(rec.to_process), Len(rec.to_process), None)
    IN  IF files = <<>>
        THEN scan_nothing(inventory, walked, fault.at)
        ELSE IF ~hashed.ok THEN ScanError(inventory, observed, "hash")
        ELSE IF ~stored.ok THEN ScanError(inventory, observed, "store")
        ELSE [ ok |-> TRUE, error |-> "null", inventory |-> stored.inventory,
               progress |-> observed,
               total_files |-> Len(snapshots), hashed_files |-> Len(rec.to_process),
               skipped_files |-> rec.skipped,
               duplicate_files |-> count_duplicates(marked) ]

\* the faults a scan of this disk can meet
scan_faults(disk, dd, inventory) ==
    LET files == enumerate_files(disk, dd, image_root, image_exts)
        rec == reconcile(build_snapshots(disk, image_root, files),
                         existing_map(inventory),
                         [reused |-> <<>>, to_process |-> <<>>, skipped |-> 0])
    IN  { HashFault(rec.to_process[i].absolute_path) : i \in 1..Len(rec.to_process) }
          \cup { DbFault(1) }

\* what a scan can observe of the disk without reading file contents
disk_stat(disk, dd) ==
    LET files == enumerate_files(disk, dd, image_root, image_exts)
    IN  [ p \in Range(files) |->
            [ size |-> metadata_len(disk[p].content), mtime |-> disk[p].mtime ] ]

\* -------------------------------------------------------------------- plan
PLAN_STAGE == "plan"

bucket_from_timestamp(timestamp) ==
    LET k == FirstIndex(timestamp, "_")
    IN  IF k = 0 THEN timestamp ELSE SubSeq(timestamp, 1, k - 1)

join_origin(root, relative) == join(root, relative)

add_duplicate_suffix(name, attempt) ==
    LET suffix == <<"_", "d", "u", "p">> \o to_string(attempt)
        k == LastIndex(name, ".")
    IN  IF k = 0 THEN name \o suffix
        ELSE SubSeq(name, 1, k - 1) \o suffix \o <<".">> \o SubSeq(name, k + 1, Len(name))

\* variant: a numbering of the retries that starts at 2
candidate_name_from_two(base_name, attempt) ==
    IF attempt = 0 THEN base_name ELSE add_duplicate_suffix(base_name, attempt + 1)

candidate_name(base_name, attempt) ==
    IF attempt = 0 THEN base_name ELSE add_duplicate_suffix(base_name, attempt)

RECURSIVE reserve_loop(_, _, _, _)
reserve_loop(used, path, base_name, attempt) ==
    IF (path \o candidate_name(base_name, attempt)) \notin used
    THEN candidate_name(base_name, attempt)
    ELSE reserve_loop(used, path, base_name, attempt + 1)

\* variant: a reservation that hands out the base name whatever is taken
reserve_target_name_always_base(used, path, base_name) == base_name

\* variant: a reservation that gives up after the first suffix
reserve_target_name_one_try(used, path, base_name) ==
    IF (path \o base_name) \notin used THEN base_name
    ELSE add_duplicate_suffix(base_name, 1)

\* the name returned; the caller's set gains path ++ name
reserve_target_name(used, path, base_name) == reserve_loop(used, path, base_name, 0)

\* variant: a routing that always takes the bucket from the modification time
target_dir_of_by_modified(record) ==
    ensure_trailing_separator(
        IF record.is_duplicate THEN duplicates_dir
        ELSE join(output_root, bucket_from_timestamp(record.modified_at)))

target_dir_of(record) ==
    LET timestamp == sort_key(record)
    IN  ensure_trailing_separator(
            IF record.is_duplicate THEN duplicates_dir
            ELSE join(output_root, bucket_from_timestamp(timestamp)))

\* the planning loop over the inventory: the NewPlanEntry list
RECURSIVE plan_loop(_, _, _)
plan_loop(inventory, used, entries) ==
    IF inventory = <<>> THEN entries
    ELSE LET record == Head(inventory)
             timestamp == sort_key(record)
             target_path_string == target_dir_of(record)
             base_file_name == timestamp \o <<".">> \o record.file_name
             unique_file_name == reserve_target_name(used, target_path_string, base_file_name)
             entry == [ file_hash        |-> record.file_hash,
                        file_size        |-> record.file_size,
                        origin_file_name |-> record.file_name,
                        origin_full_path |-> join_origin(image_root, record.relative_path),
                        target_path      |-> target_path_string,
                        target_file_name |-> unique_file_name,
                        is_duplicate     |-> record.is_duplicate ]
         IN  plan_loop(Tail(inventory),
                       used \cup {target_path_string \o unique_file_name},
                       Append(entries, entry))

\* the LegacyPlanItem of an entry, with serde's camelCase field names
legacy_plan_item(entry) ==
    [ fileHash       |-> entry.file_hash,
      fileSize       |-> entry.file_size,
      originFileName |-> entry.origin_file_name,
      originFullPath |-> entry.origin_full_path,
      newFileName    |-> entry.target_file_name,
      newPath        |-> entry.target_path ]

RECURSIVE json_elements(_)
json_elements(items) ==
    IF items = <<>> THEN <<>>
    ELSE IF Len(items) = 1 THEN << Head(items) >>
    ELSE << Head(items), "," >> \o json_elements(Tail(items))

\* variant: a serializer that writes nothing for an empty list
to_string_pretty_blank(items) ==
    IF items = <<>> THEN <<>> ELSE <<"[">> \o json_elements(items) \o <<"]">>

\* serde_json::to_string_pretty of a Vec: the brackets around the
\* comma-separated elements, "[]" for an empty one
to_string_pretty(items) == <<"[">> \o json_elements(items) \o <<"]">>

\* json::write_json of the legacy items of the planned entries
write_plan_json(entries) ==
    to_string_pretty([ i \in 1..Len(entries) |-> legacy_plan_item(entries[i]) ])

\* the callbacks of generate_plan: (0, total, none) first, then one for each
\* record with its origin path; the payload of the last one
plan_progress(inventory) ==
    LET total == Len(inventory)
        first == emit_progress(NoProgress, PLAN_STAGE, 0, total, None)
    IN  IF inventory = <<>> THEN first
        ELSE emit_progress(first, PLAN_STAGE, total, total,
                           join_origin(image_root, inventory[total].relative_path))

\* the INSERT statements of replace_plan_entries: rows with fresh ids, all
\* pending
insert_plan_entries(entries, first_id) ==
    [ i \in 1..Len(entries) |->
        [ id               |-> first_id + i - 1,
          file_hash        |-> entries[i].file_hash,
          file_size        |-> entries[i].file_size,
          origin_file_name |-> entries[i].origin_file_name,
          origin_full_path |-> entries[i].origin_full_path,
          target_path      |-> entries[i].target_path,
          target_file_name |-> entries[i].target_file_name,
          is_duplicate     |-> entries[i].is_duplicate,
          status           |-> "pending" ] ]

RECURSIVE sum_sizes(_)
sum_sizes(entries) ==
    IF entries = <<>> THEN u64_of(0)
    ELSE u64_add(Head(entries).file_size, sum_sizes(Tail(entries)))

\* PathBuf::from(target_path).join(target_file_name)
target_of(entry) == entry.target_path \o entry.target_file_name
origin_of(entry) == entry.origin_full_path

\* ------------------------------------------------------------------- store
\* variant: a replace that leaves the earlier entries and their log in place
replace_plan_entries_keeps_old(rows, logrows, first_id, entries, db_fail) ==
    IF first_failure(entries, db_fail) # 0
    THEN [ ok |-> FALSE, plan |-> rows, log |-> logrows, next_id |-> first_id ]
    ELSE [ ok |-> TRUE, plan |-> rows \o insert_plan_entries(entries, first_id),
           log |-> logrows, next_id |-> first_id + Len(entries) ]

\* Database::replace_plan_entries: the log and the entries go and the new
\* entries arrive in one transaction; AUTOINCREMENT never hands an id out twice
replace_plan_entries(rows, logrows, first_id, entries, db_fail) ==
    IF first_failure(entries, db_fail) # 0
    THEN [ ok |-> FALSE, plan |-> rows, log |-> logrows, next_id |-> first_id ]
    ELSE [ ok |-> TRUE, plan |-> insert_plan_entries(entries, first_id),
           log |-> <<>>, next_id |-> first_id + Len(entries) ]

\* the enum PlanStatus and its two conversions
PlanStatus == { "Pending", "Copied", "Moved", "Failed" }

as_str(status) ==
    CASE status = "Pending" -> "pending"
      [] status = "Copied" -> "copied"
      [] status = "Moved" -> "moved"
      [] status = "Failed" -> "failed"

\* variant: a decoder that takes every string it does not know for Pending
try_from_defaults(value) ==
    CASE value = "pending" -> [ ok |-> TRUE, status |-> "Pending" ]
      [] value = "copied" -> [ ok |-> TRUE, status |-> "Copied" ]
      [] value = "moved" -> [ ok |-> TRUE, status |-> "Moved" ]
      [] value = "failed" -> [ ok |-> TRUE, status |-> "Failed" ]
      [] OTHER -> [ ok |-> TRUE, status |-> "Pending" ]

\* TryFrom<&str> for PlanStatus
try_from(value) ==
    CASE value = "pending" -> [ ok |-> TRUE, status |-> "Pending" ]
      [] value = "copied" -> [ ok |-> TRUE, status |-> "Copied" ]
      [] value = "moved" -> [ ok |-> TRUE, status |-> "Moved" ]
      [] value = "failed" -> [ ok |-> TRUE, status |-> "Failed" ]
      [] OTHER -> [ ok |-> FALSE, status |-> "unsupported plan status" ]

\* u64::try_from(i64) succeeds when the sign bit is clear
u64_try_from(v) == v[1] < 32768

\* Database::inventory_snapshot: every row decoded, or the error of the first
\* row whose size is negative
inventory_snapshot(rows) ==
    IF \E i \in 1..Len(rows) : ~u64_try_from(rows[i].file_size)
    THEN [ ok |-> FALSE, entries |-> <<>> ]
    ELSE [ ok |-> TRUE, entries |-> rows ]

\* ORDER BY id
RECURSIVE order_by_id(_)
order_by_id(rows) ==
    IF rows = <<>> THEN <<>>
    ELSE LET k == CHOOSE i \in 1..Len(rows) : \A j \in 1..Len(rows) : rows[i].id <= rows[j].id
         IN  <<rows[k]>> \o order_by_id(SubSeq(rows, 1, k - 1) \o SubSeq(rows, k + 1, Len(rows)))

\* Database::plan_entries: every row decoded, or the error of the first row
\* that does not decode
plan_entries(rows) ==
    LET sorted == order_by_id(rows)
    IN  IF \E i \in 1..Len(sorted) :
              ~try_from(sorted[i].status).ok \/ ~u64_try_from(sorted[i].file_size)
        THEN [ ok |-> FALSE, entries |-> <<>> ]
        ELSE [ ok |-> TRUE,
               entries |-> [ i \in 1..Len(sorted) |->
                               [ sorted[i] EXCEPT !.status = try_from(@).status ] ] ]

\* variant: a filtered read that ignores its filter
plan_entries_with_status_unfiltered(rows, statuses) == plan_entries(rows)

plan_entries_with_status(rows, statuses) ==
    LET all == plan_entries(rows)
    IN  IF statuses = {} \/ ~all.ok THEN all
        ELSE [ ok |-> TRUE,
               entries |-> SelectSeq(all.entries, LAMBDA e : e.status \in statuses) ]

\* UPDATE plan_entries SET status = ?1 WHERE id = ?2, the status as the
\* caller has encoded it
\* variant: an update that also records the target as the entry's new origin
update_plan_status_moves_origin(rows, id, status) ==
    [ i \in 1..Len(rows) |->
        IF rows[i].id = id
        THEN [ rows[i] EXCEPT !.status = status,
                              !.origin_full_path = target_of(rows[i]) ]
        ELSE rows[i] ]

update_plan_status(rows, id, status) ==
    [ i \in 1..Len(rows) |->
        IF rows[i].id = id THEN [ rows[i] EXCEPT !.status = status ] ELSE rows[i] ]

\* variant: a log that keeps only its latest row
append_operation_log_replaces(rows, row) == <<row>>

append_operation_log(rows, row) == Append(rows, row)

set_meta(m, key, value) == [ k \in DOMAIN m \cup {key} |-> IF k = key THEN value ELSE m[k] ]

\* ----------------------------------------------------------- file operations
\* the ways the operating system can answer the I/O calls of one entry
IoOutcomes ==
    { "ok", "mkdir_err", "copy_err", "rename_err",
      "xdev_ok", "xdev_copy_err", "xdev_remove_err" }

write_file(disk, path, file) ==
    [ p \in DOMAIN disk \cup {path} |-> IF p = path THEN file ELSE disk[p] ]

remove_file(disk, path) == [ p \in DOMAIN disk \ {path} |-> disk[p] ]

\* fs::copy: the contents arrive under a fresh modification time
fs_copy(disk, origin, target) ==
    write_file(disk, target, [ content |-> disk[origin].content, mtime |-> NowTime ])

\* fs::rename: the file itself changes place, replacing what was there
fs_rename(disk, origin, target) ==
    write_file(remove_file(disk, origin), target, disk[origin])

copy_file(disk, origin, target, io) ==
    IF io = "copy_err"
    THEN [ ok |-> FALSE, fs |-> disk, err |-> "copy failed" ]
    ELSE [ ok |-> TRUE, fs |-> fs_copy(disk, origin, target), err |-> "null" ]

should_fallback_copy(io) == io \in { "xdev_ok", "xdev_copy_err", "xdev_remove_err" }

\* variant: a fallback that deletes the source before it copies
move_file_removes_first(disk, origin, target, io) ==
    IF io = "rename_err"
    THEN [ ok |-> FALSE, fs |-> disk, err |-> "rename failed" ]
    ELSE IF should_fallback_copy(io)
    THEN IF io = "xdev_copy_err"
         THEN [ ok |-> FALSE, fs |-> remove_file(disk, origin), err |-> "copy failed" ]
         ELSE IF io = "xdev_remove_err"
         THEN [ ok |-> FALSE, fs |-> disk, err |-> "remove failed" ]
         ELSE [ ok |-> TRUE, fs |-> remove_file(fs_copy(disk, origin, target), origin),
                err |-> "null" ]
    ELSE [ ok |-> TRUE, fs |-> fs_rename(disk, origin, target), err |-> "null" ]

move_file(disk, origin, target, io) ==
    IF io = "rename_err"
    THEN [ ok |-> FALSE, fs |-> disk, err |-> "rename failed" ]
    ELSE IF should_fallback_copy(io)
    THEN IF io = "xdev_copy_err"
         THEN [ ok |-> FALSE, fs |-> disk, err |-> "copy failed" ]
         ELSE IF io = "xdev_remove_err"
         THEN [ ok |-> FALSE, fs |-> fs_copy(disk, origin, target), err |-> "remove failed" ]
         ELSE [ ok |-> TRUE, fs |-> remove_file(fs_copy(disk, origin, target), origin),
                err |-> "null" ]
    ELSE [ ok |-> TRUE, fs |-> fs_rename(disk, origin, target), err |-> "null" ]

success_status(mode) == IF mode = "copy" THEN "copied" ELSE "moved"

EXECUTE_STAGE == "execute"
UNDO_STAGE == "undo"

\* -------------------------------------------------------- execute, per entry
\* what processing one entry does: the tallies, the disk, the status written
\* ("keep" when none is), the log row appended, and whether the pass aborts
Effect(abort, succeeded, failed, disk, dd, status, logrow) ==
    [ abort |-> abort, succeeded |-> succeeded, failed |-> failed, restored |-> 0,
      missing |-> 0, fs |-> disk, dirs |-> dd, status |-> status, logrow |-> logrow ]

LogRow(entry, operation, status, error) ==
    << [ plan_entry_id |-> entry.id, operation |-> operation,
         status |-> status, error |-> error ] >>

\* variant: a failure record that leaves the entry Pending
exec_failure_keeps_status(entry, mode, disk, dd, message) ==
    Effect(FALSE, 0, 1, disk, dd, "keep", LogRow(entry, mode, "failure", message))

\* record_failure with Some(PlanStatus::Failed)
exec_failure(entry, mode, disk, dd, message) ==
    Effect(FALSE, 0, 1, disk, dd, "failed", LogRow(entry, mode, "failure", message))

\* variant: an operation whose success is written to the plan but not logged
exec_operation_skips_log(entry, mode, io, disk, dd) ==
    LET parent == path_parent(target_of(entry))
        op == IF mode = "copy" THEN copy_file(disk, origin_of(entry), target_of(entry), io)
              ELSE move_file(disk, origin_of(entry), target_of(entry), io)
    IN  IF parent \notin dd /\ io = "mkdir_err"
        THEN Effect(TRUE, 0, 0, disk, dd, "keep", <<>>)
        ELSE IF op.ok
        THEN Effect(FALSE, 1, 0, op.fs, dd \cup {parent}, success_status(mode), <<>>)
        ELSE exec_failure(entry, mode, op.fs, dd \cup {parent}, op.err)

exec_operation(entry, mode, io, disk, dd) ==
    LET parent == path_parent(target_of(entry))
        op == IF mode = "copy" THEN copy_file(disk, origin_of(entry), target_of(entry), io)
              ELSE move_file(disk, origin_of(entry), target_of(entry), io)
    IN  IF parent \notin dd /\ io = "mkdir_err"
        THEN Effect(TRUE, 0, 0, disk, dd, "keep", <<>>)
        ELSE IF op.ok
        THEN Effect(FALSE, 1, 0, op.fs, dd \cup {parent}, success_status(mode),
                    LogRow(entry, mode, "success", "null"))
        ELSE exec_failure(entry, mode, op.fs, dd \cup {parent}, op.err)

\* variant: a dry run that counts only the entries it could carry out
dry_run_tally_counts_ready(origin_exists, target_exists, disk, dd) ==
    IF ~origin_exists \/ target_exists
    THEN Effect(FALSE, 0, 0, disk, dd, "keep", <<>>)
    ELSE Effect(FALSE, 1, 0, disk, dd, "keep", <<>>)

\* variant: a dry run that marks what it tallies as failed
dry_run_tally_marks_failed(origin_exists, target_exists, disk, dd) ==
    IF ~origin_exists \/ target_exists
    THEN Effect(FALSE, 0, 1, disk, dd, "failed", <<>>)
    ELSE Effect(FALSE, 1, 0, disk, dd, "keep", <<>>)

\* variant: a dry run that does not look at the target
dry_run_tally_ignores_target(origin_exists, target_exists, disk, dd) ==
    IF ~origin_exists
    THEN Effect(FALSE, 0, 1, disk, dd, "keep", <<>>)
    ELSE Effect(FALSE, 1, 0, disk, dd, "keep", <<>>)

dry_run_tally(origin_exists, target_exists, disk, dd) ==
    IF ~origin_exists \/ target_exists
    THEN Effect(FALSE, 0, 1, disk, dd, "keep", <<>>)
    ELSE Effect(FALSE, 1, 0, disk, dd, "keep", <<>>)

\* variant: a turn without the pre-flight check of the target
exec_entry_no_target_check(entry, mode, dry_run, io, disk, dd) ==
    LET origin_exists == origin_of(entry) \in DOMAIN disk
        target_exists == target_of(entry) \in DOMAIN disk
    IN  IF dry_run THEN dry_run_tally(origin_exists, target_exists, disk, dd)
        ELSE IF ~origin_exists
        THEN exec_failure(entry, mode, disk, dd, "origin file missing")
        ELSE exec_operation(entry, mode, io, disk, dd)

exec_entry(entry, mode, dry_run, io, disk, dd) ==
    LET origin_exists == origin_of(entry) \in DOMAIN disk
        target_exists == target_of(entry) \in DOMAIN disk
    IN  IF dry_run THEN dry_run_tally(origin_exists, target_exists, disk, dd)
        ELSE IF ~origin_exists
        THEN exec_failure(entry, mode, disk, dd, "origin file missing")
        ELSE IF target_exists
        THEN exec_failure(entry, mode, disk, dd, "target file already exists")
        ELSE exec_operation(entry, mode, io, disk, dd)

\* the answers the operating system can give while this entry is processed
exec_io_choices(entry, mode, dry_run, disk, dd) ==
    IF dry_run \/ origin_of(entry) \notin DOMAIN disk \/ target_of(entry) \in DOMAIN disk
    THEN {"ok"}
    ELSE {"ok"}
         \cup (IF path_parent(target_of(entry)) \notin dd THEN {"mkdir_err"} ELSE {})
         \cup (IF mode = "copy" THEN {"copy_err"}
               ELSE {"rename_err", "xdev_ok", "xdev_copy_err", "xdev_remove_err"})

\* ----------------------------------------------------------- undo, per entry
undo_failure_marks_failed(entry, missing, failed, disk, dd, message) ==
    [ Effect(FALSE, 0, failed, disk, dd, "failed", LogRow(entry, "undo", "failure", message))
        EXCEPT !.missing = missing ]

\* record_failure with no status
undo_failure(entry, missing, failed, disk, dd, message) ==
    [ Effect(FALSE, 0, failed, disk, dd, "keep", LogRow(entry, "undo", "failure", message))
        EXCEPT !.missing = missing ]

\* variant: an undo that sets an entry whose target is gone back to Pending
undo_entry_resets_missing(entry, io, disk, dd) ==
    LET origin == origin_of(entry)
        target == target_of(entry)
        parent == path_parent(origin)
        op == move_file(disk, target, origin, io)
    IN  IF target \notin DOMAIN disk
        THEN [ Effect(FALSE, 0, 0, disk, dd, "pending",
                      LogRow(entry, "undo", "failure", "target missing during undo"))
                 EXCEPT !.missing = 1 ]
        ELSE IF parent \notin dd /\ io = "mkdir_err"
        THEN Effect(TRUE, 0, 0, disk, dd, "keep", <<>>)
        ELSE IF op.ok
        THEN [ Effect(FALSE, 0, 0, op.fs, dd \cup {parent}, "pending",
                      LogRow(entry, "undo", "success", "null"))
                 EXCEPT !.restored = 1 ]
        ELSE undo_failure(entry, 0, 1, op.fs, dd \cup {parent}, op.err)

\* variant: an undo that copies the target back and leaves it in place
undo_entry_copies_back(entry, io, disk, dd) ==
    LET origin == origin_of(entry)
        target == target_of(entry)
        parent == path_parent(origin)
    IN  IF target \notin DOMAIN disk
        THEN undo_failure(entry, 1, 0, disk, dd, "target missing during undo")
        ELSE [ Effect(FALSE, 0, 0, fs_copy(disk, target, origin), dd \cup {parent},
                      "pending", LogRow(entry, "undo", "success", "null"))
                 EXCEPT !.restored = 1 ]

undo_entry(entry, io, disk, dd) ==
    LET origin == origin_of(entry)
        target == target_of(entry)
        parent == path_parent(origin)
        op == move_file(disk, target, origin, io)
    IN  IF target \notin DOMAIN disk
        THEN undo_failure(entry, 1, 0, disk, dd, "target missing during undo")
        ELSE IF parent \notin dd /\ io = "mkdir_err"
        THEN Effect(TRUE, 0, 0, disk, dd, "keep", <<>>)
        ELSE IF op.ok
        THEN [ Effect(FALSE, 0, 0, op.fs, dd \cup {parent}, "pending",
                      LogRow(entry, "undo", "success", "null"))
                 EXCEPT !.restored = 1 ]
        ELSE undo_failure(entry, 0, 1, op.fs, dd \cup {parent}, op.err)

undo_io_choices(entry, disk, dd) ==
    IF target_of(entry) \notin DOMAIN disk THEN {"ok"}
    ELSE {"ok", "rename_err", "xdev_ok", "xdev_copy_err", "xdev_remove_err"}
         \cup (IF path_parent(origin_of(entry)) \notin dd THEN {"mkdir_err"} ELSE {})

\* ------------------------------------------------------------ stored rows
\* the smallest size the store's INTEGER column cannot hold: i64::MAX + 1
TooBig == << 32768, 0, 0, 0 >>

\* an inventory record of the shape hash_and_extract builds
StoreRecord(relative_path, content, file_size) ==
    [ file_hash     |-> md5_file(content),
      blake3_hash   |-> blake3_file(content),
      file_size     |-> file_size,
      file_name     |-> path_file_name(relative_path),
      relative_path |-> relative_path,
      captured_at   |-> T1,
      modified_at   |-> T1,
      exif_model    |-> None,
      is_duplicate  |-> FALSE ]

RecordA == StoreRecord(<<"A", "/", "x", ".", "j">>, "c1", u64_of(3))
RecordB == StoreRecord(<<"B", "/", "x", ".", "j">>, "c2", u64_of(6))
\* rows left by an earlier session: the first was written without a strong
\* hash, the second holds the same bytes and is its duplicate
RecordOld == [ RecordA EXCEPT !.blake3_hash = None ]
RecordTwin ==
    [ StoreRecord(<<"B", "/", "x", ".", "j">>, "c1", u64_of(3)) EXCEPT !.is_duplicate = TRUE ]
RecordBig == StoreRecord(<<"B", "/", "x", ".", "j">>, "c2", TooBig)

\* the row lists a caller hands to a replace
StoreRecordLists ==
    { <<>>, <<RecordA>>, <<RecordA, RecordB>>, <<RecordA, RecordBig>>, <<RecordBig>> }

\* ---------------------------------------------------------- initial state
IdleRun ==
    [ kind |-> "idle", active |-> FALSE, mode |-> "none", dry_run |-> FALSE,
      entries |-> <<>>, idx |-> 0, succeeded |-> 0, failed |-> 0,
      restored |-> 0, missing |-> 0, written |-> <<>>, restored_ids |-> {},
      clean |-> FALSE, ready |-> 0, calm |-> FALSE ]

\* the summary an invocation returns ("env": the user changed the disk
\* since); of a direct call of the store, the rows it was given
Summary(op, ok) ==
    [ op |-> op, ok |-> ok, mode |-> "none", dry_run |-> FALSE,
      total |-> 0, processed |-> 0, succeeded |-> 0, failed |-> 0,
      restored |-> 0, missing |-> 0,
      hashed |-> 0, skipped |-> 0, duplicates |-> 0, unique |-> 0, buckets |-> 0,
      bytes |-> << 0, 0, 0, 0 >>, unchanged |-> FALSE,
      given |-> <<>>, error |-> "null" ]

NoSeen == [ valid |-> FALSE, stat |-> <<>> ]
NoSnap == [ valid |-> FALSE, fs |-> <<>>, dirs |-> {}, plan |-> <<>> ]
NoReply ==
    [ asked |-> FALSE, statuses |-> {}, ok |-> FALSE, entries |-> <<>>, waited |-> FALSE ]

\* the plan file has not been written
NoPlanJson == <<>>

\* nobody holds the connection; no transaction is open on it
NoHolder == "none"
NoCalls == [ call \in {} |-> FALSE ]
NoTxn == [ open |-> FALSE, table |-> "none", deleted |-> FALSE, todo |-> <<>>,
           goal |-> <<>>, saved |-> [ inv |-> <<>>, plan |-> <<>>, log |-> <<>> ] ]

\* the worker threads spawn_blocking runs commands on
Workers == 1..2

\* a worker with no run_execution call; result: what its last call returned
NoPass ==
    [ pc |-> "idle", mode |-> "none", entries |-> <<>>, idx |-> 0,
      origin_exists |-> FALSE, target_exists |-> FALSE,
      status |-> "keep", logrow |-> <<>>, did |-> {}, result |-> "none" ]

NoPasses == [ w \in Workers |-> NoPass ]

\* no scan is hashing
NoHashing ==
    [ total |-> 0, counter |-> 0, todo |-> {}, held |-> [ w \in {} |-> 0 ],
      delivered |-> <<>>, done |-> FALSE ]

InitDirs ==
    { image_root, output_root, duplicates_dir }
      \cup { path_parent(p) : p \in RootPaths }

\* Database::initialize, then run(): the schema version recorded, no plan,
\* and the inventory a new file has (none) or an earlier session left; the
\* user's folder holds one of the given sets of files, all written at T1
InitOver(folders, contents, inventories) ==
    /\ \E present \in folders :
         \E content \in [present -> contents] :
            fs = [ p \in present \cup {NotePath} |->
                     [ content |-> IF p = NotePath THEN "c1" ELSE content[p],
                       mtime |-> T1 ] ]
    /\ dirs = InitDirs
    /\ inv \in inventories
    /\ plan = <<>>
    /\ log = <<>>
    /\ meta = [ k \in {"schema_version"} |-> SCHEMA_VERSION ]
    /\ nextId = 1
    /\ run = IdleRun
    /\ last = Summary("init", TRUE)
    /\ seen = NoSeen
    /\ snap = NoSnap
    /\ progress = NoProgress
    /\ user_version = DB_VERSION
    /\ reply = NoReply
    /\ pass = NoPasses
    /\ foreign_keys = TRUE
    /\ hashing = NoHashing
    /\ plan_json = NoPlanJson
    /\ guard = NoHolder
    /\ txn = NoTxn
    /\ waiting = NoCalls
    /\ calls = 0
    /\ envOps = 0
    /\ faults = 0

Init == InitOver(SUBSET TwinPaths, {"c1", "c2"}, { <<>> })

\* ------------------------------------------------------------- the user
TargetPaths == { target_of(plan[i]) : i \in 1..Len(plan) }

\* the user writes (or overwrites) a picture under the image root
EnvWrite(paths, contents, times) ==
    /\ ~run.active /\ MayDisturb
    /\ \E p \in paths, c \in contents, t \in times :
         /\ fs' = write_file(fs, p, [ content |-> c, mtime |-> t ])
         /\ dirs' = dirs \cup { image_root, path_parent(p) }
    /\ envOps' = envOps + 1
    /\ run' = IdleRun /\ snap' = NoSnap
    /\ last' = Summary("env", TRUE)
    /\ progress' = NoProgress
    /\ UNCHANGED <<hashing, pass, foreign_keys, plan_json, guard, txn, waiting, user_version, reply, inv, plan, log, meta, nextId, seen, calls, faults>>

\* something else puts a file where a plan entry is to go
EnvOccupy ==
    /\ ~run.active /\ MayDisturb
    /\ \E p \in TargetPaths :
         /\ fs' = write_file(fs, p, [ content |-> "c3", mtime |-> T2 ])
         /\ dirs' = dirs \cup { path_parent(p) }
    /\ envOps' = envOps + 1
    /\ run' = IdleRun /\ snap' = NoSnap
    /\ last' = Summary("env", TRUE)
    /\ progress' = NoProgress
    /\ UNCHANGED <<hashing, pass, foreign_keys, plan_json, guard, txn, waiting, user_version, reply, inv, plan, log, meta, nextId, seen, calls, faults>>

\* the user deletes a file, under the image root or under the output root
EnvDelete ==
    /\ ~run.active /\ MayDisturb
    /\ \E p \in DOMAIN fs \ {NotePath} : fs' = remove_file(fs, p)
    /\ envOps' = envOps + 1
    /\ run' = IdleRun /\ snap' = NoSnap
    /\ last' = Summary("env", TRUE)
    /\ progress' = NoProgress
    /\ UNCHANGED <<hashing, pass, foreign_keys, plan_json, guard, txn, waiting, user_version, reply, dirs, inv, plan, log, meta, nextId, seen, calls, faults>>

\* the user takes the whole image folder away
EnvRemoveRoot ==
    /\ ~run.active /\ MayDisturb /\ image_root \in dirs
    /\ fs' = [ p \in { q \in DOMAIN fs : ~IsPrefix(image_root \o <<"/">>, q) } |-> fs[p] ]
    /\ dirs' = { d \in dirs : d # image_root /\ ~IsPrefix(image_root \o <<"/">>, d) }
    /\ envOps' = envOps + 1
    /\ run' = IdleRun /\ snap' = NoSnap
    /\ last' = Summary("env", TRUE)
    /\ progress' = NoProgress
    /\ UNCHANGED <<hashing, pass, foreign_keys, plan_json, guard, txn, waiting, user_version, reply, inv, plan, log, meta, nextId, seen, calls, faults>>

\* the user removes a folder that has become empty
EnvRmdir ==
    /\ ~run.active /\ MayDisturb
    /\ \E d \in dirs \ { image_root, output_root, duplicates_dir } :
         /\ \A p \in DOMAIN fs : path_parent(p) # d
         /\ dirs' = dirs \ {d}
    /\ envOps' = envOps + 1
    /\ run' = IdleRun /\ snap' = NoSnap
    /\ last' = Summary("env", TRUE)
    /\ progress' = NoProgress
    /\ UNCHANGED <<hashing, pass, foreign_keys, plan_json, guard, txn, waiting, user_version, reply, fs, inv, plan, log, meta, nextId, seen, calls, faults>>

\* ------------------------------------------------------------------ stages
\* perform_scan
Scan ==
    /\ ~run.active /\ calls < MaxCalls
    /\ \E fault \in {NoFault} \cup (IF MayDisturb
                                    THEN scan_faults(fs, dirs, inv) ELSE {}) :
         LET r == perform_scan(fs, dirs, inv, fault)
         IN  /\ faults' = IF fault = NoFault THEN faults ELSE faults + 1
             /\ inv' = r.inventory
             /\ progress' = r.progress
             /\ seen' = IF r.ok THEN [ valid |-> TRUE, stat |-> disk_stat(fs, dirs) ]
                        ELSE seen
             /\ last' = [ Summary("scan", r.ok) EXCEPT
                            !.total = r.total_files, !.hashed = r.hashed_files,
                            !.skipped = r.skipped_files,
                            !.duplicates = r.duplicate_files, !.error = r.error,
                            !.unchanged = seen.valid /\ seen.stat = disk_stat(fs, dirs) ]
    /\ calls' = calls + 1
    /\ run' = IdleRun
    /\ UNCHANGED <<hashing, pass, foreign_keys, plan_json, guard, txn, waiting, user_version, reply, fs, dirs, plan, log, meta, nextId, snap, envOps>>

\* generate_plan
Plan ==
    /\ ~run.active /\ calls < MaxCalls
    /\ \E fault \in {NoFault} \cup (IF MayDisturb THEN {DbFault(1)} ELSE {}) :
         LET entries == plan_loop(inv, {}, <<>>)
             r == replace_plan_entries(plan, log, nextId, entries, fault.at)
             m1 == IF inv = <<>> THEN meta ELSE set_meta(meta, "plan_generated_at", 1)
             m2 == set_meta(m1, "plan_entry_count", Len(entries))
             m3 == set_meta(m2, "plan_schema_version", PLAN_SCHEMA_VERSION)
         IN  /\ plan' = r.plan
             /\ log' = r.log
             /\ progress' = plan_progress(inv)
             /\ nextId' = r.next_id
             /\ meta' = IF r.ok THEN set_meta(m3, "plan_total_bytes", sum_sizes(entries))
                        ELSE meta
             /\ plan_json' = IF r.ok THEN write_plan_json(entries) ELSE plan_json
             /\ last' = IF r.ok
                        THEN [ Summary("plan", TRUE) EXCEPT
                                 !.total = Len(entries),
                                 !.duplicates = count_duplicates(inv),
                                 !.unique = Len(entries) - count_duplicates(inv),
                                 !.buckets = Cardinality({ entries[i].target_path :
                                                             i \in 1..Len(entries) }),
                                 !.bytes = sum_sizes(entries) ]
                        ELSE Summary("plan", FALSE)
             /\ faults' = IF fault = NoFault THEN faults ELSE faults + 1
    /\ calls' = calls + 1
    /\ run' = IdleRun /\ snap' = NoSnap
    /\ UNCHANGED <<hashing, pass, foreign_keys, guard, txn, waiting, user_version, reply, fs, dirs, inv, seen, envOps>>

\* Database::clear_operation_logs, the maintenance action
ClearLogs ==
    /\ ~run.active /\ calls < MaxCalls /\ log # <<>>
    /\ log' = <<>>
    /\ calls' = calls + 1
    /\ last' = Summary("clear_logs", TRUE)
    /\ progress' = NoProgress
    /\ run' = IdleRun
    /\ UNCHANGED <<hashing, pass, foreign_keys, plan_json, guard, txn, waiting, user_version, reply, fs, dirs, inv, plan, meta, nextId, seen, snap, envOps, faults>>

\* run_execution up to its loop: the Pending entries are read once
ExecBegin ==
    /\ ~run.active /\ calls < MaxCalls
    /\ \E mode \in {"copy", "move"}, dry_run \in BOOLEAN :
         LET read == plan_entries_with_status(plan, {"Pending"})
             entries == read.entries
         IN  /\ run' = IF entries = <<>> THEN IdleRun
                       ELSE [ IdleRun EXCEPT !.kind = "exec", !.active = TRUE,
                                !.mode = mode, !.dry_run = dry_run,
                                !.entries = entries,
                                !.clean = \A i \in 1..Len(entries) :
                                            /\ origin_of(entries[i]) \in DOMAIN fs
                                            /\ target_of(entries[i]) \notin DOMAIN fs,
                                !.ready = Cardinality(
                                            { i \in 1..Len(entries) :
                                                /\ origin_of(entries[i]) \in DOMAIN fs
                                                /\ target_of(entries[i]) \notin DOMAIN fs }),
                                !.calm = TRUE ]
             /\ last' = [ Summary(IF entries = <<>> THEN "exec" ELSE "running",
                                  read.ok)
                            EXCEPT !.mode = mode, !.dry_run = dry_run ]
             /\ progress' = IF ~read.ok THEN NoProgress
                            ELSE emit_progress(NoProgress, EXECUTE_STAGE, 0,
                                               Len(entries), None)
             /\ snap' = IF mode = "move" /\ ~dry_run /\ entries # <<>>
                           /\ Len(entries) = Len(plan)
                        THEN [ valid |-> TRUE, fs |-> fs, dirs |-> dirs, plan |-> plan ]
                        ELSE NoSnap
    /\ calls' = calls + 1
    /\ UNCHANGED <<hashing, pass, foreign_keys, plan_json, guard, txn, waiting, user_version, reply, fs, dirs, inv, plan, log, meta, nextId, seen, envOps, faults>>

\* one turn of run_execution's loop; the turn that ends the pass returns
ExecStep ==
    /\ run.active /\ run.kind = "exec"
    /\ LET entry == run.entries[run.idx + 1]
       IN  \E io \in exec_io_choices(entry, run.mode, run.dry_run, fs, dirs) :
             LET e == exec_entry(entry, run.mode, run.dry_run, io, fs, dirs)
                 done == e.abort \/ run.idx + 1 = Len(run.entries)
                 r == [ run EXCEPT !.idx = IF e.abort THEN @ ELSE @ + 1,
                                   !.succeeded = @ + e.succeeded,
                                   !.failed = @ + e.failed,
                                   !.written = IF e.status = "keep" THEN @
                                               ELSE Append(@, entry.id),
                                   !.clean = @ /\ io = "ok",
                                   !.calm = @ /\ io = "ok",
                                   !.active = ~done ]
             IN  /\ (io # "ok") => MayDisturb
                 /\ faults' = IF io = "ok" THEN faults ELSE faults + 1
                 /\ fs' = e.fs
                 /\ dirs' = e.dirs
                 /\ plan' = IF e.status = "keep" THEN plan
                            ELSE update_plan_status(plan, entry.id, e.status)
                 /\ log' = IF e.logrow = <<>> THEN log
                           ELSE append_operation_log(log, e.logrow[1])
                 /\ run' = r
                 /\ progress' = IF e.abort THEN progress
                                ELSE emit_progress(progress, EXECUTE_STAGE, run.idx + 1,
                                                   Len(run.entries), origin_of(entry))
                 /\ meta' = IF done /\ ~e.abort
                            THEN set_meta(meta, "plan_schema_version", PLAN_SCHEMA_VERSION)
                            ELSE meta
                 /\ last' = IF done
                            THEN [ last EXCEPT !.op = "exec", !.ok = ~e.abort,
                                     !.total = Len(run.entries), !.processed = r.idx,
                                     !.succeeded = r.succeeded, !.failed = r.failed ]
                            ELSE last
    /\ UNCHANGED <<hashing, pass, foreign_keys, plan_json, guard, txn, waiting, user_version, reply, inv, nextId, seen, snap, calls, envOps>>

\* undo_moves up to its loop: the Moved entries are read once
UndoBegin ==
    /\ ~run.active /\ calls < MaxCalls
    /\ LET read == plan_entries_with_status(plan, {"Moved"})
           entries == read.entries
       IN  /\ run' = IF entries = <<>> THEN IdleRun
                     ELSE [ IdleRun EXCEPT !.kind = "undo", !.active = TRUE,
                              !.entries = entries ]
           /\ last' = Summary(IF entries = <<>> THEN "undo" ELSE "running",
                              read.ok)
           /\ progress' = IF ~read.ok THEN NoProgress
                          ELSE emit_progress(NoProgress, UNDO_STAGE, 0, Len(entries), None)
    /\ calls' = calls + 1
    /\ UNCHANGED <<hashing, pass, foreign_keys, plan_json, guard, txn, waiting, user_version, reply, fs, dirs, inv, plan, log, meta, nextId, seen, snap, envOps, faults>>

\* one turn of undo_moves' loop
UndoStep ==
    /\ run.active /\ run.kind = "undo"
    /\ LET entry == run.entries[run.idx + 1]
       IN  \E io \in undo_io_choices(entry, fs, dirs) :
             LET e == undo_entry(entry, io, fs, dirs)
                 done == e.abort \/ run.idx + 1 = Len(run.entries)
                 r == [ run EXCEPT !.idx = IF e.abort THEN @ ELSE @ + 1,
                                   !.restored = @ + e.restored,
                                   !.missing = @ + e.missing,
                                   !.failed = @ + e.failed,
                                   !.written = IF e.status = "keep" THEN @
                                               ELSE Append(@, entry.id),
                                   !.restored_ids = IF e.restored = 1
                                                    THEN @ \cup {entry.id} ELSE @,
                                   !.active = ~done ]
             IN  /\ (io # "ok") => MayDisturb
                 /\ faults' = IF io = "ok" THEN faults ELSE faults + 1
                 /\ fs' = e.fs
                 /\ dirs' = e.dirs
                 /\ plan' = IF e.status = "keep" THEN plan
                            ELSE update_plan_status(plan, entry.id, e.status)
                 /\ log' = IF e.logrow = <<>> THEN log
                           ELSE append_operation_log(log, e.logrow[1])
                 /\ run' = r
                 /\ progress' = IF e.abort THEN progress
                                ELSE emit_progress(progress, UNDO_STAGE, run.idx + 1,
                                                   Len(run.entries), origin_of(entry))
                 /\ last' = IF done
                            THEN [ last EXCEPT !.op = "undo", !.ok = ~e.abort,
                                     !.total = Len(run.entries), !.processed = r.idx,
                                     !.restored = r.restored, !.missing = r.missing,
                                     !.failed = r.failed ]
                            ELSE last
    /\ UNCHANGED <<hashing, pass, foreign_keys, plan_json, guard, txn, waiting, user_version, reply, inv, meta, nextId, seen, snap, calls, envOps>>

Next ==
    \/ EnvWrite(TwinPaths, {"c3"}, {T2}) \/ EnvOccupy \/ EnvDelete \/ EnvRmdir
    \/ Scan \/ Plan \/ ClearLogs
    \/ ExecBegin \/ ExecStep
    \/ UndoBegin \/ UndoStep

Spec == Init /\ [][Next]_vars

\* scanning and planning alone, over all three pictures
InitPlan == InitOver({{}, RootPaths}, {"c1", "c2"}, { <<>>, <<RecordOld, RecordTwin>> })

NextPlan ==
    \/ EnvWrite(RootPaths, {"c3"}, Times) \/ EnvDelete \/ EnvRemoveRoot
    \/ Scan \/ Plan

SpecPlan == InitPlan /\ [][NextPlan]_vars

Ids(rows) == { rows[i].id : i \in 1..Len(rows) }
EntryById(rows, id) == CHOOSE e \in Range(rows) : e.id = id

\* --------------------------------------------------------- the store alone
\* a status string no release of the program writes
ForeignStatus == "archived"

\* variant: a migration that keeps the rows of an older file
apply_migrations_keeps_rows(db, db_fail) ==
    IF db_fail # 0 THEN [ ok |-> FALSE, db |-> db ]
    ELSE [ ok |-> TRUE,
           db |-> [ db EXCEPT !.meta = set_meta(@, "schema_version", SCHEMA_VERSION),
                              !.user_version = DB_VERSION ] ]

\* apply_migrations over the store file: one transaction, rolled back when a
\* statement fails; DROP TABLE also forgets the table's AUTOINCREMENT counter
apply_migrations(db, db_fail) ==
    LET current_version == db.user_version
        dropped == IF current_version < DB_VERSION
                   THEN [ db EXCEPT !.inventory = <<>>, !.plan = <<>>, !.log = <<>>,
                                    !.next_id = 1 ]
                   ELSE db
    IN  IF db_fail # 0 THEN [ ok |-> FALSE, db |-> db ]
        ELSE [ ok |-> TRUE,
               db |-> [ dropped EXCEPT
                          !.meta = set_meta(@, "schema_version", SCHEMA_VERSION),
                          !.user_version = DB_VERSION ] ]

\* the store file as the variables hold it
StoreFile ==
    [ user_version |-> user_version, inventory |-> inv, plan |-> plan, log |-> log,
      next_id |-> nextId, meta |-> meta ]

\* what a release of the program can have left in the file: nothing, a plan,
\* or a plan partly executed; app_meta as initialize and generate_plan write it
LeftBehind ==
    LET rows == insert_plan_entries(plan_loop(<<RecordA, RecordB>>, {}, <<>>), 1)
        opened == [ k \in {"schema_version"} |-> SCHEMA_VERSION ]
        planned == set_meta(opened, "plan_entry_count", 2)
    IN  { [ inventory |-> <<>>, plan |-> <<>>, log |-> <<>>, next_id |-> 1,
            meta |-> opened ],
          [ inventory |-> <<RecordA, RecordB>>, plan |-> rows, log |-> <<>>,
            next_id |-> 3, meta |-> planned ],
          [ inventory |-> <<RecordA, RecordB>>,
            plan |-> update_plan_status(rows, 1, as_str("Moved")),
            log |-> LogRow(rows[1], "move", "success", "null"), next_id |-> 3,
            meta |-> planned ] }

\* a database a Database object has been made for
Opened == last.op # "closed" /\ ~(last.op = "initialize" /\ ~last.ok)

\* the file before Database::initialize: a new one (user_version 0, nothing
\* in it) or one left by the previous, this or the next release
InitStore ==
    /\ \E v \in { 0, DB_VERSION - 1, DB_VERSION, DB_VERSION + 1 } :
         \E left \in IF v = 0 THEN { [ inventory |-> <<>>, plan |-> <<>>, log |-> <<>>,
                                       next_id |-> 1, meta |-> [ k \in {} |-> 0 ] ] }
                     ELSE LeftBehind :
            /\ user_version = v
            /\ inv = left.inventory /\ plan = left.plan /\ log = left.log
            /\ nextId = left.next_id
            /\ meta = left.meta
    /\ fs = [ p \in {} |-> 0 ] /\ dirs = InitDirs
    /\ run = IdleRun /\ seen = NoSeen /\ snap = NoSnap /\ progress = NoProgress
    /\ last = Summary("closed", TRUE)
    /\ reply = NoReply
    /\ pass = NoPasses
    /\ foreign_keys = TRUE
    /\ hashing = NoHashing
    /\ plan_json = NoPlanJson
    /\ guard = NoHolder
    /\ txn = NoTxn
    /\ waiting = NoCalls
    /\ calls = 0 /\ envOps = 0 /\ faults = 0

\* the faults a store call can meet: none, or its first statement fails
StoreFaults == {NoFault} \cup (IF MayDisturb THEN {DbFault(1)} ELSE {})

\* Database::initialize, at every start of the program
Initialize ==
    /\ calls < MaxCalls
    /\ \E fault \in StoreFaults :
         LET r == apply_migrations(StoreFile, fault.at)
         IN  /\ user_version' = r.db.user_version
             /\ inv' = r.db.inventory /\ plan' = r.db.plan /\ log' = r.db.log
             /\ nextId' = r.db.next_id /\ meta' = r.db.meta
             /\ last' = Summary("initialize", r.ok)
             /\ faults' = IF fault = NoFault THEN faults ELSE faults + 1
    /\ calls' = calls + 1
    /\ reply' = NoReply
    /\ UNCHANGED <<hashing, pass, foreign_keys, plan_json, guard, txn, waiting, fs, dirs, run, seen, snap, progress, envOps>>

StoreReplaceInventory ==
    /\ Opened /\ calls < MaxCalls
    /\ \E records \in StoreRecordLists, fault \in StoreFaults :
         LET r == replace_inventory(inv, records, fault.at)
         IN  /\ inv' = r.inventory
             /\ last' = [ Summary("replace_inventory", r.ok) EXCEPT
                            !.total = Len(records), !.given = records ]
             /\ faults' = IF fault = NoFault THEN faults ELSE faults + 1
    /\ calls' = calls + 1
    /\ reply' = NoReply
    /\ UNCHANGED <<hashing, pass, foreign_keys, plan_json, guard, txn, waiting, fs, dirs, plan, log, meta, nextId, run, seen, snap, progress,
                   user_version, envOps>>

StoreReplacePlanEntries ==
    /\ Opened /\ calls < MaxCalls
    /\ \E records \in StoreRecordLists, fault \in StoreFaults :
         LET entries == plan_loop(records, {}, <<>>)
             r == replace_plan_entries(plan, log, nextId, entries, fault.at)
         IN  /\ plan' = r.plan /\ log' = r.log /\ nextId' = r.next_id
             /\ last' = [ Summary("replace_plan_entries", r.ok) EXCEPT
                            !.total = Len(entries), !.given = entries ]
             /\ faults' = IF fault = NoFault THEN faults ELSE faults + 1
    /\ calls' = calls + 1
    /\ reply' = NoReply
    /\ UNCHANGED <<hashing, pass, foreign_keys, plan_json, guard, txn, waiting, fs, dirs, inv, meta, run, seen, snap, progress,
                   user_version, envOps>>

StoreUpdatePlanStatus ==
    /\ Opened /\ calls < MaxCalls
    /\ \E id \in Ids(plan), status \in PlanStatus :
         plan' = update_plan_status(plan, id, as_str(status))
    /\ last' = Summary("update_plan_status", TRUE)
    /\ calls' = calls + 1
    /\ reply' = NoReply
    /\ UNCHANGED <<hashing, pass, foreign_keys, plan_json, guard, txn, waiting, fs, dirs, inv, log, meta, nextId, run, seen, snap, progress,
                   user_version, envOps, faults>>

\* another program writes a status of its own into a row of the file
StoreForeignWrite ==
    /\ Opened /\ MayDisturb
    /\ \E id \in Ids(plan) : plan' = update_plan_status(plan, id, ForeignStatus)
    /\ last' = Summary("env", TRUE)
    /\ envOps' = envOps + 1
    /\ reply' = NoReply
    /\ UNCHANGED <<hashing, pass, foreign_keys, plan_json, guard, txn, waiting, fs, dirs, inv, log, meta, nextId, run, seen, snap, progress,
                   user_version, calls, faults>>

\* Database::plan_entries_with_status, called with a filter
StoreRead ==
    /\ Opened /\ calls < MaxCalls
    /\ \E statuses \in SUBSET PlanStatus :
         LET r == plan_entries_with_status(plan, statuses)
         IN  /\ reply' = [ asked |-> TRUE, statuses |-> statuses,
                           ok |-> r.ok, entries |-> r.entries, waited |-> FALSE ]
             /\ last' = Summary("plan_entries_with_status", r.ok)
    /\ calls' = calls + 1
    /\ UNCHANGED <<hashing, pass, foreign_keys, plan_json, guard, txn, waiting, fs, dirs, inv, plan, log, meta, nextId, run, seen, snap, progress,
                   user_version, envOps, faults>>

NextStore ==
    \/ Initialize \/ StoreReplaceInventory \/ StoreReplacePlanEntries
    \/ StoreUpdatePlanStatus \/ StoreForeignWrite \/ StoreRead

SpecStore == InitStore /\ [][NextStore]_vars

\* ------------------------------------------------------------------ claims
FilesScanned == Range(enumerate_files(fs, dirs, image_root, image_exts))

\* C1: a successful scan of a directory whose paths, sizes and modification
\* times are what the previous successful scan saw hashes no file and
\* skips every file.
C1_ScanIdempotent ==
    (last.op = "scan" /\ last.ok /\ last.unchanged)
        => (last.hashed = 0 /\ last.skipped = last.total
            /\ last.total = Cardinality(FilesScanned))

C1_Witness ==
    /\ last.op = "scan" /\ last.ok /\ last.unchanged
    /\ last.total = 3 /\ last.skipped = 3 /\ last.duplicates = 1

\* C2: no two entries of the persisted plan share the pair (target
\* directory, target file name), whatever the inventory's names and times.
C2_PlanCollisionFree ==
    \A i, j \in 1..Len(plan) :
        (i # j) => << plan[i].target_path, plan[i].target_file_name >>
                     # << plan[j].target_path, plan[j].target_file_name >>

\* the plan where x.j, x_dup1.j and a second x.j meet in one directory
C2_Witness ==
    /\ Len(plan) = 3
    /\ \A i \in 1..3 : plan[i].target_path = plan[1].target_path
    /\ \E i \in 1..3 : plan[i].target_file_name = T1 \o <<".", "x", "_", "d", "u", "p", "1", ".", "j">>
    /\ \E i \in 1..3 : plan[i].target_file_name = T1 \o <<".", "x", "_", "d", "u", "p", "2", ".", "j">>

InExec == run.active /\ run.kind = "exec"
InUndo == run.active /\ run.kind = "undo"
CurrentEntry == run.entries[run.idx + 1]
\* the step is the start of a run_execution call
BeginsExec == calls' = calls + 1 /\ (last'.op = "exec" \/ run'.kind = "exec")

\* the status changes a step may make to an entry that outlives it
C3_Step ==
    \A id \in Ids(plan) \cap Ids(plan') :
        LET a == EntryById(plan, id).status
            b == EntryById(plan', id).status
        IN  (a # b) =>
              \/ InExec /\ a = "pending" /\ b \in {"copied", "moved", "failed"}
              \/ InUndo /\ a = "moved" /\ b = "pending"

\* the ids an execute pass has written a status for are pairwise distinct
C3_WrittenOnce ==
    (run.kind = "exec") =>
        \A i, j \in 1..Len(run.written) : (i # j) => run.written[i] # run.written[j]

\* C3: between two planning passes an entry's status changes only
\* Pending -> Copied / Moved / Failed in an execute pass and Moved -> Pending
\* in an undo pass, and one execute pass writes an entry's status at most once.
C3_StatusMachine == [](C3_WrittenOnce) /\ [][C3_Step]_vars

\* every status has been reached, and a moved entry has been undone
C3_Witness ==
    /\ run.kind = "undo" /\ run.restored >= 1
    /\ \E i \in 1..Len(plan) : plan[i].status = "failed"

\* a successful non-dry-run execution leaves no entry Pending
C4_NoPendingLeft ==
    (last.op = "exec" /\ last.ok /\ ~last.dry_run)
        => \A i \in 1..Len(plan) : plan[i].status # "pending"

\* the run_execution that follows such an execution at once
C4_SecondRun ==
    (last.op = "exec" /\ last.ok /\ ~last.dry_run /\ BeginsExec)
        => /\ last'.op = "exec" /\ last'.ok
           /\ last'.total = 0 /\ last'.succeeded = 0 /\ last'.failed = 0
           /\ plan' = plan /\ fs' = fs /\ dirs' = dirs /\ log' = log

\* C4: when a non-dry-run execution has returned successfully no entry is
\* Pending, and a run_execution that follows it at once reads no entry,
\* reports 0 succeeded and 0 failed, and changes no status, file or log row.
C4_ExecuteIdempotent == [](C4_NoPendingLeft) /\ [][C4_SecondRun]_vars

\* an execution that found nothing to do over a plan that was executed before
C4_Witness ==
    /\ last.op = "exec" /\ last.ok /\ last.total = 0
    /\ Len(plan) = 2 /\ Len(log) = 2
    /\ \E i \in 1..2 : plan[i].status = "failed"
    /\ \E i \in 1..2 : plan[i].status = "copied"

\* every entry undo counts as restored has its origin file back, no target
\* file and status Pending
C5_Restored ==
    (run.kind = "undo") =>
        \A id \in run.restored_ids :
            LET e == EntryById(plan, id)
            IN  /\ origin_of(e) \in DOMAIN fs
                /\ target_of(e) \notin DOMAIN fs
                /\ e.status = "pending"

\* an undo pass has returned having restored every entry of the plan
AllRestored ==
    /\ run.kind = "undo" /\ last.op = "undo" /\ last.ok
    /\ snap.valid /\ Len(plan) > 0 /\ last.restored = Len(plan)

\* C5 (as claimed): every entry undo counts as restored has its origin file
\* back, no target file and status Pending; and when undo restores every
\* entry, files, directories and plan rows are what the move execution found.
C5_RoundTripClaimed ==
    /\ C5_Restored
    /\ AllRestored => (fs = snap.fs /\ dirs = snap.dirs /\ plan = snap.plan)

\* C5 (amended): every entry undo counts as restored has its origin file
\* back, no target file and status Pending; and when undo restores every
\* entry, the same paths hold the same contents and the plan rows are what
\* the move execution found; the directories made for the targets stay, and
\* a file that went through the copy fallback has a new modification time.
C5_RoundTrip ==
    /\ C5_Restored
    /\ AllRestored =>
         /\ DOMAIN fs = DOMAIN snap.fs
         /\ \A p \in DOMAIN fs : fs[p].content = snap.fs[p].content
         /\ plan = snap.plan
         /\ snap.dirs \subseteq dirs

\* two entries moved and both restored, the bucket directories left behind
C5_Witness == AllRestored /\ Len(plan) = 2 /\ dirs # snap.dirs

\* the turn of an entry whose origin and target both exist
C7_Step ==
    (InExec /\ ~run.dry_run
       /\ origin_of(CurrentEntry) \in DOMAIN fs /\ target_of(CurrentEntry) \in DOMAIN fs)
        => /\ run'.failed = run.failed + 1 /\ run'.succeeded = run.succeeded
           /\ EntryById(plan', CurrentEntry.id).status = "failed"
           /\ log' = Append(log, [ plan_entry_id |-> CurrentEntry.id,
                                   operation |-> run.mode, status |-> "failure",
                                   error |-> "target file already exists" ])
           /\ fs' = fs

\* C7: a non-dry-run turn on an entry whose origin and target both exist
\* counts it failed, sets it Failed, logs 'target file already exists' and
\* leaves every file as it was.
C7_PreflightTargetCheck == [][C7_Step]_vars

\* the entry failed on a target the user had put there, both files intact
C7_Witness ==
    /\ run.kind = "exec" /\ ~run.dry_run /\ log # <<>>
    /\ log[Len(log)].error = "target file already exists"
    /\ LET e == EntryById(plan, log[Len(log)].plan_entry_id)
       IN  /\ e.status = "failed"
           /\ origin_of(e) \in DOMAIN fs
           /\ target_of(e) \in DOMAIN fs /\ fs[target_of(e)].content = "c3"

\* a step of a dry run: its start (also its end when no entry is Pending)
\* or the turn of one entry
C8_Step ==
    ((InExec /\ run.dry_run) \/ (BeginsExec /\ last'.dry_run))
        => (fs' = fs /\ dirs' = dirs /\ plan' = plan /\ log' = log)

\* C8: a dry run creates, copies, moves and deletes nothing, changes no
\* entry status and appends no log row.
C8_DryRunChangesNothing == [][C8_Step]_vars

\* a dry run that tallied one success and one failure and left all Pending
C8_Witness ==
    /\ last.op = "exec" /\ last.ok /\ last.dry_run
    /\ last.succeeded = 1 /\ last.failed = 1
    /\ \A i \in 1..Len(plan) : plan[i].status = "pending"
    /\ log = <<>>

\* C9 (as claimed): an execute or undo call always returns a summary, with
\* every entry it read processed and tallied.
C9_BatchCompleteness ==
    (last.op \in {"exec", "undo"})
        => /\ last.ok
           /\ last.processed = last.total
           /\ last.succeeded + last.failed + last.restored + last.missing = last.total

\* the log after a step extends the log before it
C10_Claimed_Step == (last'.op # "clear_logs") => IsPrefix(log, log')

\* C10 (as claimed): no step but clear_operation_logs removes or alters a
\* log row.
C10_AppendOnlyClaimed == [][C10_Claimed_Step]_vars

\* the same, with generate_plan set apart
C10_Step == (last'.op \notin {"clear_logs", "plan"}) => IsPrefix(log, log')

\* C10 (amended): no scan, execute or undo step removes or alters a log row;
\* rows go only by clear_operation_logs or by generate_plan, whose
\* replace_plan_entries empties the log with the plan.
C10_AppendOnly == [][C10_Step]_vars

\* a log of four rows grown over a move execution and its undo
C10_Witness ==
    /\ last.op = "undo" /\ Len(log) = 4
    /\ log[1].operation = "move" /\ log[4].operation = "undo"

\* the step is a generate_plan call that returned Ok
PlanReturnsOk == calls' = calls + 1 /\ last'.op = "plan" /\ last'.ok

C11_Step ==
    PlanReturnsOk =>
        /\ Len(plan') = Len(inv)
        /\ \A i \in 1..Len(inv) :
             /\ plan'[i].origin_full_path = join_origin(image_root, inv[i].relative_path)
             /\ plan'[i].file_hash = inv[i].file_hash
             /\ plan'[i].status = "pending"
        /\ \A i, j \in 1..Len(plan') : (i < j) => plan'[i].id < plan'[j].id
        /\ Ids(plan') \cap Ids(plan) = {}
        /\ log' = <<>>

\* C11: a generate_plan that returns Ok leaves one plan entry for each
\* inventory record, in the inventory's order, every one Pending, none with
\* the id of an entry of the plan before it, and an empty operation log.
C11_WholesaleReplace == [][C11_Step]_vars

\* a second plan of two entries, made after the first one was executed
C11_Witness ==
    /\ last.op = "plan" /\ last.ok /\ Len(plan) = 2 /\ plan[1].id = 3
    /\ log = <<>> /\ \E p \in DOMAIN fs : IsPrefix(output_root, p)

\* the step is a call of one of the two replace operations
ReplaceCall ==
    calls' = calls + 1 /\ last'.op \in {"replace_inventory", "replace_plan_entries"}

\* the columns a NewPlanEntry supplies
supplied(row) ==
    [ file_hash |-> row.file_hash, file_size |-> row.file_size,
      origin_file_name |-> row.origin_file_name,
      origin_full_path |-> row.origin_full_path,
      target_path |-> row.target_path, target_file_name |-> row.target_file_name,
      is_duplicate |-> row.is_duplicate ]

C12_Step ==
    ReplaceCall =>
        /\ ~last'.ok => (inv' = inv /\ plan' = plan /\ log' = log)
        /\ (last'.ok /\ last'.op = "replace_inventory") =>
             (inv' = last'.given /\ plan' = plan /\ log' = log)
        /\ (last'.ok /\ last'.op = "replace_plan_entries") =>
             /\ Len(plan') = Len(last'.given)
             /\ \A i \in 1..Len(plan') : supplied(plan'[i]) = last'.given[i]
             /\ inv' = inv

\* C12: a replace_inventory or replace_plan_entries that fails on a row
\* leaves inventory, plan entries and operation log exactly as they were, and
\* one that succeeds leaves exactly the rows it was given.
C12_AllOrNothing == [][C12_Step]_vars

\* a replace_inventory given a good row and then a row too large for the
\* store, refused with the earlier inventory still in place
C12_Witness ==
    /\ last.op = "replace_inventory" /\ ~last.ok /\ faults = 0
    /\ last.given = <<RecordA, RecordBig>>
    /\ inv = <<RecordA, RecordB>>

\* a real copy pass that found every origin and no target, all I/O succeeding
CleanCopy == run.kind = "exec" /\ run.mode = "copy" /\ ~run.dry_run /\ run.clean

\* C13: a copy execution of a generated plan that finds every origin file and
\* no target file, and whose I/O calls all succeed, returns Ok with
\* succeeded = total and failed = 0, sets every entry it read to Copied,
\* creates every target and keeps every origin; and while it runs, every entry
\* still to be processed keeps its origin present and its target absent.
C13_CleanCopy ==
    /\ (CleanCopy /\ ~run.active) =>
         /\ last.op = "exec" /\ last.ok
         /\ last.total = Len(run.entries) /\ last.processed = last.total
         /\ last.succeeded = last.total /\ last.failed = 0
         /\ \A i \in 1..Len(run.entries) :
              /\ EntryById(plan, run.entries[i].id).status = as_str("Copied")
              /\ target_of(run.entries[i]) \in DOMAIN fs
              /\ origin_of(run.entries[i]) \in DOMAIN fs
              /\ fs[target_of(run.entries[i])].content
                   = fs[origin_of(run.entries[i])].content
    /\ (CleanCopy /\ run.active) =>
         \A i \in (run.idx + 1)..Len(run.entries) :
              /\ origin_of(run.entries[i]) \in DOMAIN fs
              /\ target_of(run.entries[i]) \notin DOMAIN fs

\* two pictures of one name and one date copied into the same bucket
C13_Witness ==
    /\ CleanCopy /\ ~run.active /\ last.succeeded = 2
    /\ run.entries[1].target_path = run.entries[2].target_path

\* the step is the start of an undo_moves call
BeginsUndo == calls' = calls + 1 /\ (last'.op = "undo" \/ run'.kind = "undo")

\* the turn of a Moved entry whose target file is gone
C14_Step ==
    (InUndo /\ target_of(CurrentEntry) \notin DOMAIN fs)
        => /\ run'.missing = run.missing + 1
           /\ run'.restored = run.restored /\ run'.failed = run.failed
           /\ log' = Append(log, [ plan_entry_id |-> CurrentEntry.id,
                                   operation |-> "undo", status |-> "failure",
                                   error |-> "target missing during undo" ])
           /\ EntryById(plan', CurrentEntry.id).status = as_str("Moved")
           /\ plan' = plan /\ fs' = fs /\ dirs' = dirs

\* an undo_moves call reads every entry that is Moved
C14_Reread ==
    BeginsUndo =>
        \A i \in 1..Len(plan) :
            (plan[i].status = as_str("Moved"))
                => \E j \in 1..Len(run'.entries) : run'.entries[j].id = plan[i].id

\* what an undo pass counts as missing is what it leaves Moved without a target
C14_Tally ==
    (run.kind = "undo" /\ ~run.active /\ last.ok) =>
        last.missing = Cardinality({ i \in 1..Len(run.entries) :
                          /\ target_of(run.entries[i]) \notin DOMAIN fs
                          /\ EntryById(plan, run.entries[i].id).status = as_str("Moved") })

StageReturned == ~run.active /\ last.ok /\ last.op \in {"scan", "plan", "exec", "undo"}

\* C15 (as claimed): when a stage invocation has returned, the last callback
\* of each stage it went through (scan, diff, hash, plan, execute, undo) has
\* processed = total and current = none.
C15_ProgressCompletion ==
    StageReturned =>
        \A stage \in DOMAIN progress :
            /\ progress[stage].processed = progress[stage].total
            /\ progress[stage].current = None

\* the step is a perform_scan call in which a call failed
ScanMeetsFailure == calls' = calls + 1 /\ last'.op = "scan" /\ faults' = faults + 1

C16_Step == ScanMeetsFailure => (~last'.ok /\ inv' = inv)

\* C16: a perform_scan in which the hashing of one file fails (or a statement
\* of the store does) returns an error and leaves the stored inventory exactly
\* as it was; nothing of what the same fan-out hashed is stored.
C16_NoPartialInventory == [][C16_Step]_vars

\* three files went to the fan-out, one could not be hashed, and the
\* inventory of the earlier session is still the stored one
C16_Witness ==
    /\ last.op = "scan" /\ ~last.ok /\ last.error = "hash"
    /\ "hash" \in DOMAIN progress /\ progress["hash"].total = 3
    /\ inv = <<RecordOld, RecordTwin>>

\* the step is a Database::initialize that returned Ok
InitializeOk == calls' = calls + 1 /\ last'.op = "initialize" /\ last'.ok

C17_Step ==
    InitializeOk =>
        /\ (user_version < DB_VERSION) => (inv' = <<>> /\ plan' = <<>> /\ log' = <<>>)
        /\ (user_version = DB_VERSION) => (inv' = inv /\ plan' = plan /\ log' = log)
        /\ "schema_version" \in DOMAIN meta'
        /\ meta'["schema_version"] = SCHEMA_VERSION
        /\ user_version' = DB_VERSION

\* C17: a Database::initialize that returns Ok has emptied inventory, plan
\* entries and operation log when the file's version was older than
\* DB_VERSION and kept every row of them when it was equal; afterwards
\* app_meta holds schema_version = SCHEMA_VERSION.
C17_Migration == [][C17_Step]_vars

\* an older file that held a plan of two entries: the rows are gone, the
\* count generate_plan had recorded in app_meta is still there
C17_Witness ==
    /\ last.op = "initialize" /\ last.ok /\ user_version = DB_VERSION
    /\ inv = <<>> /\ plan = <<>> /\ log = <<>> /\ nextId = 1
    /\ "plan_entry_count" \in DOMAIN meta /\ meta["plan_entry_count"] = 2

\* strings that are not the encoding of a status
UnknownStatusStrings == { ForeignStatus, "Pending", "PENDING", "", "done", "null" }

\* the strings as_str can produce
EncodedStatuses == { as_str(s) : s \in PlanStatus }

\* C18: decoding the encoding of each of Pending, Copied, Moved, Failed gives
\* that status back; decoding any other string is an error; and a read of the
\* plan entries succeeds exactly when every stored status is an encoding,
\* returns the stored statuses decoded, and returns no entry at all otherwise.
C18_StatusCodec ==
    /\ \A s \in PlanStatus : try_from(as_str(s)) = [ ok |-> TRUE, status |-> s ]
    /\ \A v \in UnknownStatusStrings : ~try_from(v).ok
    /\ reply.asked =>
         /\ reply.ok = (\A i \in 1..Len(plan) : plan[i].status \in EncodedStatuses)
         /\ ~reply.ok => reply.entries = <<>>
         /\ \A j \in 1..Len(reply.entries) :
              /\ reply.entries[j].status \in PlanStatus
              /\ as_str(reply.entries[j].status)
                   = EntryById(plan, reply.entries[j].id).status

\* a read refused as a whole: one row carries a foreign status, the other a
\* valid one
C18_Witness ==
    /\ reply.asked /\ ~reply.ok /\ reply.statuses = {"Moved"} /\ Len(plan) = 2
    /\ \E i \in 1..2 : plan[i].status = ForeignStatus
    /\ \E i \in 1..2 : plan[i].status = as_str("Moved")

\* C19: a plan_entries_with_status(S) that returns Ok returns the stored
\* entries whose status is in S, or all of them when S is empty, each once,
\* with its stored columns, in ascending order of id.
C19_FilteredRead ==
    (reply.asked /\ reply.ok) =>
        /\ \A i, j \in 1..Len(reply.entries) :
             (i < j) => reply.entries[i].id < reply.entries[j].id
        /\ { reply.entries[j].id : j \in 1..Len(reply.entries) }
             = { plan[i].id : i \in { k \in 1..Len(plan) :
                     \/ reply.statuses = {}
                     \/ plan[k].status \in { as_str(s) : s \in reply.statuses } } }
        /\ \A j \in 1..Len(reply.entries) :
             LET row == EntryById(plan, reply.entries[j].id)
             IN  [ reply.entries[j] EXCEPT !.status = row.status ] = row

\* a filter of two statuses that lets one of two stored entries through
C19_Witness ==
    /\ reply.asked /\ reply.ok /\ reply.statuses = {"Moved", "Failed"}
    /\ Len(plan) = 2 /\ Len(reply.entries) = 1
    /\ reply.entries[1].status = "Moved"

\* the step is a perform_scan call, none of whose calls failed, made while
\* the image root does not exist
ScansMissingRoot ==
    /\ calls' = calls + 1 /\ last'.op = "scan" /\ faults' = faults
    /\ image_root \notin dirs

C20_Step ==
    ScansMissingRoot =>
        /\ last'.ok
        /\ last'.total = 0 /\ last'.hashed = 0 /\ last'.skipped = 0
        /\ last'.duplicates = 0
        /\ inv' = <<>>

\* C20: a perform_scan made while the root directory does not exist returns
\* Ok with total, hashed, skipped and duplicate counts 0 and leaves the stored
\* inventory empty, whatever was stored before.
C20_MissingRoot == [][C20_Step]_vars

\* the image folder is gone, the picture an earlier session had recorded is no
\* longer in the inventory, and no file was walked
C20_Witness ==
    /\ last.op = "scan" /\ last.ok /\ last.total = 0
    /\ image_root \notin dirs /\ inv = <<>>
    /\ progress["scan"] = [ processed |-> 0, total |-> 0, current |-> None ]

\* the step is a perform_scan call that returned Ok
ScanReturnsOk == calls' = calls + 1 /\ last'.op = "scan" /\ last'.ok

\* the path of a file relative to the image root
RelativeOf(p) == SubSeq(p, Len(image_root) + 2, Len(p))

\* the stored rows that match the file at p in path, size and modification
\* time and carry a strong hash
MatchingRows(p) ==
    { i \in 1..Len(inv) :
        /\ inv[i].relative_path = RelativeOf(p)
        /\ inv[i].file_size = metadata_len(fs[p].content)
        /\ inv[i].modified_at = fs[p].mtime
        /\ inv[i].blake3_hash # None }

\* the row the scan stored for the file at p
RowAfter(p) == CHOOSE r \in Range(inv') : r.relative_path = RelativeOf(p)

C21_Step ==
    ScanReturnsOk =>
        LET files == FilesScanned
            hits == [ p \in files |-> MatchingRows(p) ]
            row == [ p \in files |-> RowAfter(p) ]
        IN  /\ last'.skipped = Cardinality({ p \in files : hits[p] # {} })
            /\ last'.hashed = Cardinality({ p \in files : hits[p] = {} })
            /\ \A p \in files :
                 /\ \E r \in Range(inv') : r.relative_path = RelativeOf(p)
                 /\ \A i \in hits[p] :
                      /\ row[p].file_hash = inv[i].file_hash
                      /\ row[p].blake3_hash = inv[i].blake3_hash
                      /\ row[p].captured_at = inv[i].captured_at
                      /\ row[p].exif_model = inv[i].exif_model
                 /\ (hits[p] = {}) =>
                      /\ row[p].file_hash = md5_file(fs[p].content)
                      /\ row[p].blake3_hash = blake3_file(fs[p].content)
            /\ \A i \in 1..Len(inv) :
                 Cardinality({ j \in 1..Len(inv') :
                                 inv'[j].relative_path = inv[i].relative_path }) <= 1

\* C21: a scan reuses the stored record of a file, without hashing it, exactly
\* when a stored record has the file's relative path, size and modification
\* time and a strong hash; the reused record keeps its legacy hash, strong
\* hash, capture time and camera model, every other file is hashed, and no
\* stored record is reused for two files.
C21_CacheHitRule == [][C21_Step]_vars

\* a picture was overwritten with other bytes of the same size and time: the
\* scan reused the record and the stored hash is no longer the file's
C21_Witness ==
    /\ last.op = "scan" /\ last.ok /\ last.skipped = 3 /\ last.hashed = 0
    /\ \E p \in FilesScanned :
         \E r \in Range(inv) :
            /\ r.relative_path = RelativeOf(p)
            /\ r.file_hash # md5_file(fs[p].content)

\* the file whose row comes first in "reused records, then hashed records",
\* both in path order, among the files of a group
PrimaryOf(group, reused) ==
    LET front == IF group \cap reused # {} THEN group \cap reused ELSE group
    IN  CHOOSE p \in front : \A q \in front : PathCmp(p, q) <= 0

C22_Step ==
    ScanReturnsOk =>
        LET files == FilesScanned
            reused == { p \in files : MatchingRows(p) # {} }
            row == [ p \in files |-> RowAfter(p) ]
        IN  \A p \in files :
                row[p].is_duplicate =
                    (PrimaryOf({ q \in files : row[q].file_hash = row[p].file_hash },
                               reused) # p)

\* C22: after a scan the one non-duplicate row of each legacy-hash group is
\* the first of the group in the list "reused records in path order, then
\* freshly hashed records in path order", whatever the timestamp order of the
\* stored inventory; a re-hashed file therefore yields the flag to a cached
\* file with the same legacy hash.
C22_DuplicatePrimary == [][C22_Step]_vars

\* the file that was primary has been hashed again and is now the duplicate
\* of the cached file that follows it in path order and in the inventory
C22_Witness ==
    /\ last.op = "scan" /\ last.ok /\ last.skipped >= 1 /\ last.hashed >= 1
    /\ Len(inv) >= 2
    /\ inv[1].file_hash = inv[2].file_hash
    /\ inv[1].is_duplicate /\ ~inv[2].is_duplicate
    /\ PathCmp(join(image_root, inv[1].relative_path),
               join(image_root, inv[2].relative_path)) < 0

\* the step is a completed turn of the loop of a run_execution that is not a
\* dry run
ExecTurn == InExec /\ ~run.dry_run /\ run'.idx = run.idx + 1

C23_Step ==
    ExecTurn =>
        /\ Len(log') = Len(log) + 1
        /\ SubSeq(log', 1, Len(log)) = log
        /\ LET row == log'[Len(log')]
               after == EntryById(plan', CurrentEntry.id).status
           IN  /\ row.plan_entry_id = CurrentEntry.id
               /\ row.operation = run.mode
               /\ row.status \in {"success", "failure"}
               /\ (row.status = "success") <=> (after \in {"copied", "moved"})
               /\ (row.status = "failure") <=> (after = "failed")
               /\ (row.status = "success") =>
                    (row.error = "null" /\ after = success_status(run.mode))
               /\ (row.status = "failure") => (row.error # "null" /\ row.error # "")

NamingPaths == RootPaths \cup { join(image_root, <<"B", "/", "x", "_", "d", "u", "p", "1", ".", "j">>) }

\* an earlier session scanned the folder and left its inventory; the files
\* were written at either time
InitNaming ==
    /\ \E present \in SUBSET NamingPaths :
         \E content \in [present -> Contents], mtime \in [present -> Times] :
            fs = [ p \in present |-> [ content |-> content[p], mtime |-> mtime[p] ] ]
    /\ dirs = InitDirs
    /\ inv = perform_scan(fs, dirs, <<>>, NoFault).inventory
    /\ plan = <<>>
    /\ log = <<>>
    /\ meta = [ k \in {"schema_version"} |-> SCHEMA_VERSION ]
    /\ nextId = 1
    /\ run = IdleRun
    /\ last = Summary("init", TRUE)
    /\ seen = NoSeen
    /\ snap = NoSnap
    /\ progress = NoProgress
    /\ user_version = DB_VERSION
    /\ reply = NoReply
    /\ pass = NoPasses
    /\ foreign_keys = TRUE
    /\ hashing = NoHashing
    /\ plan_json = NoPlanJson
    /\ guard = NoHolder
    /\ txn = NoTxn
    /\ waiting = NoCalls
    /\ calls = 0
    /\ envOps = 0
    /\ faults = 0

NextNaming == Plan

SpecNaming == InitNaming /\ [][NextNaming]_vars

\* "<timestamp>.<original_file_name>" of the i-th inventory record
BaseName(i) == sort_key(inv[i]) \o <<".">> \o inv[i].file_name

\* name with "_dup<n>" put before its last "."
DupName(name, n) ==
    LET dots == { k \in 1..Len(name) : name[k] = "." }
        k == CHOOSE d \in dots : \A e \in dots : e <= d
        tag == <<"_", "d", "u", "p">> \o to_string(n)
    IN  IF dots = {} THEN name \o tag
        ELSE SubSeq(name, 1, k - 1) \o tag \o SubSeq(name, k, Len(name))

\* the (directory, name) pairs the entries before the i-th have got
ReservedBefore(i) ==
    { << plan'[j].target_path, plan'[j].target_file_name >> : j \in 1..(i - 1) }

\* the smallest n >= 1 whose retry name is free for the i-th entry
SmallestFree(i) ==
    CHOOSE n \in 1..i :
        /\ << plan'[i].target_path, DupName(BaseName(i), n) >> \notin ReservedBefore(i)
        /\ \A m \in 1..(n - 1) :
             << plan'[i].target_path, DupName(BaseName(i), m) >> \in ReservedBefore(i)

\* no earlier record of the pass has the i-th record's directory and base name
FirstOfItsName(i) ==
    \A j \in 1..(i - 1) :
        ~(plan'[j].target_path = plan'[i].target_path /\ BaseName(j) = BaseName(i))

C24_OriginalStep ==
    PlanReturnsOk =>
        \A i \in 1..Len(inv) :
            plan'[i].target_file_name =
                IF FirstOfItsName(i) THEN BaseName(i)
                ELSE DupName(BaseName(i), SmallestFree(i))

\* C24 as stated: the first record planned for a (target directory, base
\* name) gets the base name unchanged, every later one the retry name with
\* the smallest free number.
C24_FirstKeepsBase == [][C24_OriginalStep]_vars

C24_Step ==
    PlanReturnsOk =>
        \A i \in 1..Len(inv) :
            plan'[i].target_file_name =
                IF << plan'[i].target_path, BaseName(i) >> \notin ReservedBefore(i)
                THEN BaseName(i)
                ELSE DupName(BaseName(i), SmallestFree(i))

\* C24: a record gets "<timestamp>.<original_file_name>" unchanged when no
\* earlier entry of the pass has that name in its target directory, and
\* otherwise that name with "_dup<N>" before the last ".", N the smallest
\* integer >= 1 whose name no earlier entry of the pass has in the directory.
C24_CollisionNaming == [][C24_Step]_vars

\* x_dup1.j is planned after two x.j of its directory: its own name is taken
\* and it becomes x_dup1_dup1.j
C24_Witness ==
    /\ last.op = "plan" /\ last.ok /\ Len(plan) >= 3
    /\ \E i \in 1..Len(plan) :
         /\ plan[i].origin_file_name = <<"x", "_", "d", "u", "p", "1", ".", "j">>
         /\ plan[i].target_file_name =
              T1 \o <<".", "x", "_", "d", "u", "p", "1", "_", "d", "u", "p", "1", ".", "j">>

\* the part of a timestamp before its first "_" (all of it when there is none)
DatePart(timestamp) ==
    LET bars == { k \in 1..Len(timestamp) : timestamp[k] = "_" }
        k == CHOOSE b \in bars : \A c \in bars : b <= c
    IN  IF bars = {} THEN timestamp ELSE SubSeq(timestamp, 1, k - 1)

C25_Step ==
    PlanReturnsOk =>
        \A i \in 1..Len(inv) :
            LET stamp == IF inv[i].captured_at # None THEN inv[i].captured_at
                         ELSE inv[i].modified_at
            IN  /\ plan'[i].is_duplicate = inv[i].is_duplicate
                /\ plan'[i].target_path =
                     IF inv[i].is_duplicate THEN duplicates_dir \o <<"/">>
                     ELSE output_root \o <<"/">> \o DatePart(stamp) \o <<"/">>

\* C25: the entry planned for a record flagged duplicate targets the
\* duplicates directory, with a trailing separator; any other record's entry
\* targets "<output_root>/<date_bucket>/", the bucket being the part before
\* the first "_" of the capture timestamp or, without one, of the modified
\* timestamp; the entry carries the record's duplicate flag.
C25_TargetRouting == [][C25_Step]_vars

\* a plan with a duplicate and with a picture taken on another day than the
\* one its file was written on
C25_Witness ==
    /\ last.op = "plan" /\ last.ok /\ Len(plan) = Len(inv)
    /\ \E i \in 1..Len(plan) : plan[i].is_duplicate /\ plan[i].target_path = <<"O", "/", "D", "/">>
    /\ \E i \in 1..Len(plan) :
         /\ inv[i].captured_at = T1 /\ inv[i].modified_at = T2
         /\ plan[i].target_path = <<"O", "/", "1", "/">>

\* the number of stored plan entries with the given stored status
CountStatus(status) == Cardinality({ i \in 1..Len(plan) : plan[i].status = status })

\* a pass reads, when it starts, the entries that are Pending (execute) or
\* Moved (undo) at that moment; with none of them it returns zeros at once
C26_Step ==
    /\ (calls' = calls + 1 /\ run'.kind = "exec") =>
          Len(run'.entries) = CountStatus("pending")
    /\ (calls' = calls + 1 /\ run'.kind = "undo") =>
          Len(run'.entries) = CountStatus("moved")
    /\ (calls' = calls + 1 /\ last'.op = "exec" /\ last'.ok) =>
          /\ CountStatus("pending") = 0
          /\ last'.total = 0 /\ last'.processed = 0
          /\ last'.succeeded = 0 /\ last'.failed = 0
    /\ (calls' = calls + 1 /\ last'.op = "undo" /\ last'.ok) =>
          /\ CountStatus("moved") = 0
          /\ last'.processed = 0
          /\ last'.restored = 0 /\ last'.missing = 0 /\ last'.failed = 0

\* the summary a pass over at least one entry returned
C26_Returned ==
    /\ (last.op = "exec" /\ last.ok /\ run.kind = "exec") =>
          /\ last.succeeded + last.failed = last.processed
          /\ last.processed = last.total
          /\ last.total = Len(run.entries)
    /\ (last.op = "undo" /\ last.ok /\ run.kind = "undo") =>
          /\ last.restored + last.missing + last.failed = last.processed
          /\ last.processed = Len(run.entries)

\* C26: a run_execution that returns Ok, dry run or not, reports
\* succeeded + failed = processed_entries = total_entries = the number of
\* entries that were Pending when it started, and an undo_moves that returns
\* Ok reports restored + missing + failed = processed_entries = the number of
\* entries that were Moved when it started.
C26_SummaryAccounting == [](C26_Returned) /\ [][C26_Step]_vars

\* a dry run over two entries that found one of them blocked
C26_Witness ==
    /\ last.op = "exec" /\ last.ok /\ last.dry_run /\ run.kind = "exec"
    /\ last.succeeded = 1 /\ last.failed = 1 /\ last.total = 2

\* C27: right after a scan that returned Ok, total_files = hashed_files +
\* skipped_files = the number of stored inventory rows, duplicate_files is the
\* number of rows flagged duplicate, the rows' relative paths are pairwise
\* distinct, and every row belongs to a file the scan enumerated.
C27_ScanConsistency ==
    (last.op = "scan" /\ last.ok) =>
        /\ last.total = last.hashed + last.skipped
        /\ last.total = Len(inv)
        /\ last.duplicates = Cardinality({ i \in 1..Len(inv) : inv[i].is_duplicate })
        /\ \A i, j \in 1..Len(inv) :
             (i # j) => inv[i].relative_path # inv[j].relative_path
        /\ \A i \in 1..Len(inv) : join(image_root, inv[i].relative_path) \in FilesScanned

\* the user removed A/x.j, whose row was stored; the next scan reused one
\* record, hashed one file, flagged one duplicate and stored two rows
C27_Witness ==
    /\ last.op = "scan" /\ last.ok /\ envOps = 1
    /\ join(image_root, <<"A", "/", "x", ".", "j">>) \notin DOMAIN fs
    /\ last.total = 2 /\ last.hashed = 1 /\ last.skipped = 1 /\ last.duplicates = 1

\* ------------------------------------------- the connection and its threads
\* variant: a connection handed out without taking the Mutex
conn_without_lock(holder) == TRUE

\* Database::conn: lock() returns once no other thread holds the guard
conn(holder) == holder = NoHolder

ReadCalls == { "inventory_snapshot", "plan_entries" }

\* what the store holds once the open transaction is rolled back, and once it
\* is committed
Committed ==
    IF txn.open THEN txn.saved ELSE [ inv |-> inv, plan |-> plan, log |-> log ]

AfterCommit ==
    IF ~txn.open THEN Committed
    ELSE IF txn.table = "media_inventory"
    THEN [ inv |-> txn.goal, plan |-> txn.saved.plan, log |-> txn.saved.log ]
    ELSE [ inv |-> txn.saved.inv, plan |-> txn.goal, log |-> <<>> ]

\* perform_scan up to replace_inventory's conn.transaction(): the guard is
\* taken with the records to store in hand
ScanReplaceBegin ==
    /\ conn(guard) /\ ~txn.open /\ calls < MaxCalls
    /\ LET r == perform_scan(fs, dirs, inv, NoFault)
       IN  /\ txn' = [ open |-> TRUE, table |-> "media_inventory", deleted |-> FALSE,
                       todo |-> r.inventory, goal |-> r.inventory,
                       saved |-> [ inv |-> inv, plan |-> plan, log |-> log ] ]
           /\ progress' = r.progress
    /\ guard' = "scan"
    /\ last' = Summary("running", TRUE)
    /\ calls' = calls + 1
    /\ UNCHANGED <<hashing, pass, foreign_keys, plan_json, fs, dirs, inv, plan, log, meta, nextId, run, seen, snap,
                   user_version, reply, waiting, envOps, faults>>

\* generate_plan up to replace_plan_entries' conn.transaction()
PlanReplaceBegin ==
    /\ conn(guard) /\ ~txn.open /\ calls < MaxCalls
    /\ LET rows == insert_plan_entries(plan_loop(inv, {}, <<>>), nextId)
       IN  txn' = [ open |-> TRUE, table |-> "plan_entries", deleted |-> FALSE,
                    todo |-> rows, goal |-> rows,
                    saved |-> [ inv |-> inv, plan |-> plan, log |-> log ] ]
    /\ progress' = plan_progress(inv)
    /\ guard' = "plan"
    /\ last' = Summary("running", TRUE)
    /\ calls' = calls + 1
    /\ UNCHANGED <<hashing, pass, foreign_keys, plan_json, fs, dirs, inv, plan, log, meta, nextId, run, seen, snap,
                   user_version, reply, waiting, envOps, faults>>

\* the DELETE statements of the open transaction
TxDelete ==
    /\ txn.open /\ ~txn.deleted
    /\ inv' = IF txn.table = "media_inventory" THEN <<>> ELSE inv
    /\ plan' = IF txn.table = "plan_entries" THEN <<>> ELSE plan
    /\ log' = IF txn.table = "plan_entries" THEN <<>> ELSE log
    /\ txn' = [ txn EXCEPT !.deleted = TRUE ]
    /\ UNCHANGED <<hashing, pass, foreign_keys, plan_json, fs, dirs, meta, nextId, run, last, seen, snap, progress,
                   user_version, reply, guard, waiting, calls, envOps, faults>>

\* one INSERT statement of the open transaction
TxInsert ==
    /\ txn.open /\ txn.deleted /\ txn.todo # <<>>
    /\ inv' = IF txn.table = "media_inventory" THEN Append(inv, Head(txn.todo)) ELSE inv
    /\ plan' = IF txn.table = "plan_entries" THEN Append(plan, Head(txn.todo)) ELSE plan
    /\ txn' = [ txn EXCEPT !.todo = Tail(@) ]
    /\ UNCHANGED <<hashing, pass, foreign_keys, plan_json, fs, dirs, log, meta, nextId, run, last, seen, snap, progress,
                   user_version, reply, guard, waiting, calls, envOps, faults>>

\* tx.commit(), the guard dropped, and the rest of the call: the planner's
\* set_meta calls and the summary returned
TxCommit ==
    /\ txn.open /\ txn.deleted /\ txn.todo = <<>>
    /\ txn' = NoTxn
    /\ guard' = NoHolder
    /\ nextId' = IF txn.table = "plan_entries" THEN nextId + Len(txn.goal) ELSE nextId
    /\ meta' = IF txn.table = "plan_entries"
               THEN set_meta(set_meta(set_meta(
                        IF txn.goal = <<>> THEN meta
                        ELSE set_meta(meta, "plan_generated_at", 1),
                        "plan_entry_count", Len(txn.goal)),
                        "plan_schema_version", PLAN_SCHEMA_VERSION),
                        "plan_total_bytes", sum_sizes(txn.goal))
               ELSE meta
    /\ plan_json' = IF txn.table = "plan_entries" THEN write_plan_json(txn.goal)
                    ELSE plan_json
    /\ last' = [ Summary(IF txn.table = "plan_entries" THEN "plan" ELSE "scan", TRUE)
                   EXCEPT !.total = Len(txn.goal) ]
    /\ UNCHANGED <<hashing, pass, foreign_keys, fs, dirs, inv, plan, log, run, seen, snap, progress,
                   user_version, reply, waiting, calls, envOps, faults>>

\* a statement of the open transaction fails: the transaction is dropped
\* and rolled back, the call returns the error
TxRollback ==
    /\ txn.open /\ MayDisturb
    /\ inv' = txn.saved.inv
    /\ plan' = txn.saved.plan
    /\ log' = txn.saved.log
    /\ txn' = NoTxn
    /\ guard' = NoHolder
    /\ last' = [ Summary(IF txn.table = "plan_entries" THEN "plan" ELSE "scan", FALSE)
                   EXCEPT !.error = "store" ]
    /\ faults' = faults + 1
    /\ UNCHANGED <<hashing, pass, foreign_keys, plan_json, fs, dirs, meta, nextId, run, seen, snap, progress,
                   user_version, reply, waiting, calls, envOps>>

\* another thread calls inventory_snapshot or plan_entries and reaches conn()
ReadCall ==
    /\ \E call \in ReadCalls \ DOMAIN waiting :
         waiting' = [ c \in DOMAIN waiting \cup {call} |->
                        IF c = call THEN ~conn(guard) ELSE waiting[c] ]
    /\ UNCHANGED <<hashing, pass, foreign_keys, plan_json, fs, dirs, inv, plan, log, meta, nextId, run, last, seen, snap,
                   progress, user_version, reply, guard, txn, calls, envOps, faults>>

\* the read gets the guard, runs its SELECT over the connection, drops the
\* guard and returns
ReadReturn ==
    /\ conn(guard)
    /\ \E call \in DOMAIN waiting :
         LET r == IF call = "inventory_snapshot" THEN inventory_snapshot(inv)
                  ELSE plan_entries(plan)
         IN  /\ reply' = [ asked |-> TRUE, statuses |-> {}, ok |-> r.ok,
                           entries |-> r.entries, waited |-> waiting[call] ]
             /\ last' = Summary(call, r.ok)
             /\ waiting' = [ c \in DOMAIN waiting \ {call} |-> waiting[c] ]
    /\ UNCHANGED <<hashing, pass, foreign_keys, plan_json, fs, dirs, inv, plan, log, meta, nextId, run, seen, snap,
                   progress, user_version, guard, txn, calls, envOps, faults>>

InitReaders ==
    InitOver({{}, RootPaths}, {"c1", "c2"}, { <<>>, <<RecordOld, RecordTwin>> })

NextReaders ==
    \/ ScanReplaceBegin \/ PlanReplaceBegin
    \/ TxDelete \/ TxInsert \/ TxCommit \/ TxRollback
    \/ ReadCall \/ ReadReturn

SpecReaders == InitReaders /\ [][NextReaders]_vars

\* the step is the return of the given read
ReadReturns(call) == call \in DOMAIN waiting /\ call \notin DOMAIN waiting'

C28_Step ==
    /\ ReadReturns("inventory_snapshot") =>
          /\ reply'.ok
          /\ reply'.entries \in { Committed.inv, AfterCommit.inv }
    /\ ReadReturns("plan_entries") =>
          /\ reply'.ok
          /\ reply'.entries \in { plan_entries(Committed.plan).entries,
                                  plan_entries(AfterCommit.plan).entries }

\* C28: whenever a read of the inventory or of the plan entries made by
\* another thread returns while a scan or a plan replaces the table, it
\* returns all of the rows the table had before the replace or all of the
\* rows it has after it, never a table emptied or filled in part.
C28_NoHalfReplacedRead == [][C28_Step]_vars

\* a read called while the scan's transaction was open waited for the guard
\* and returned the three rows of the finished replace
C28_Witness ==
    /\ reply.asked /\ reply.waited /\ reply.ok
    /\ last.op = "inventory_snapshot"
    /\ ~txn.open /\ Len(inv) = 3 /\ reply.entries = inv

\* the step is a generate_plan over an empty inventory in which no call fails
PlansNothing ==
    calls' = calls + 1 /\ last'.op = "plan" /\ inv = <<>> /\ faults' = faults

C29_Step ==
    PlansNothing =>
        /\ last'.ok
        /\ last'.total = 0 /\ last'.duplicates = 0 /\ last'.unique = 0
        /\ last'.buckets = 0 /\ last'.bytes = u64_of(0)
        /\ plan' = <<>>
        /\ log' = <<>>
        /\ plan_json' = <<"[", "]">>
        /\ {"plan_entry_count", "plan_total_bytes"} \subseteq DOMAIN meta'
        /\ meta'["plan_entry_count"] = 0
        /\ meta'["plan_total_bytes"] = u64_of(0)

\* C29: generate_plan over an empty inventory returns Ok with every count 0,
\* leaves no plan entry and no log row, writes the empty JSON array to the
\* plan file and sets the entry-count and total-bytes metadata to 0.
C29_EmptyPlan == [][C29_Step]_vars

\* an empty plan took the place of one that had entries
C29_Witness ==
    /\ last.op = "plan" /\ last.ok /\ inv = <<>>
    /\ plan = <<>> /\ plan_json = <<"[", "]">>
    /\ nextId > 1
    /\ meta["plan_entry_count"] = 0

\* C30: over any sequence of Database::initialize calls on one file, also by
\* a program whose DB_VERSION is lower than the stored version, the stored
\* user_version never decreases.
C30_VersionMonotone == [][user_version' >= user_version]_vars

\* the capture timestamp of a stored row, or its modified timestamp
StampOf(r) == IF r.captured_at # None THEN r.captured_at ELSE r.modified_at

\* C31: the rows a scan stored are in ascending order of (capture timestamp,
\* else modified timestamp), rows of equal timestamp in ascending order of
\* relative_path.
C31_InventoryOrder ==
    \A i, j \in 1..Len(inv) :
        (i < j) =>
            \/ StrCmp(StampOf(inv[i]), StampOf(inv[j])) < 0
            \/ /\ StampOf(inv[i]) = StampOf(inv[j])
               /\ StrCmp(inv[i].relative_path, inv[j].relative_path) < 0

\* a picture taken on day 1 in a file written on day 2 stands before a file
\* of day 2 whose path is smaller
C31_Witness ==
    /\ Len(inv) >= 2
    /\ \E i \in 1..(Len(inv) - 1) :
         /\ inv[i].captured_at = T1 /\ inv[i].modified_at = T2
         /\ inv[i + 1].modified_at = T2 /\ StampOf(inv[i + 1]) = T2
         /\ StrCmp(inv[i + 1].relative_path, inv[i].relative_path) < 0

\* a turn of undo_moves' loop that met a file at the entry's origin
UndoTurnOnTakenOrigin ==
    /\ InUndo
    /\ run'.idx = run.idx + 1
    /\ target_of(run.entries[run.idx + 1]) \in DOMAIN fs
    /\ origin_of(run.entries[run.idx + 1]) \in DOMAIN fs

\* C32: an undo turn whose entry's origin path holds a file leaves that file
\* and the file at the target as they are and counts the entry as failed.
C32_UndoKeepsOrigin ==
    [][ UndoTurnOnTakenOrigin =>
          LET entry == run.entries[run.idx + 1]
          IN  /\ origin_of(entry) \in DOMAIN fs'
              /\ fs'[origin_of(entry)] = fs[origin_of(entry)]
              /\ target_of(entry) \in DOMAIN fs'
              /\ run'.failed = run.failed + 1 ]_vars

\* the bytes that were at path `from` are at `from` or at `to` afterwards
KeptAt(from, to) ==
    \/ from \in DOMAIN fs' /\ fs'[from].content = fs[from].content
    \/ to \in DOMAIN fs' /\ fs'[to].content = fs[from].content

\* C33: whatever a turn of execute in move mode or of undo does, and whatever
\* call of it fails, the file it handles is afterwards at its source or at its
\* destination; the source is gone only if the destination holds the bytes.
C33_MoveKeepsFile ==
    [][ /\ (InExec /\ run.mode = "move" /\ ~run.dry_run
              /\ origin_of(run.entries[run.idx + 1]) \in DOMAIN fs)
           => KeptAt(origin_of(run.entries[run.idx + 1]),
                     target_of(run.entries[run.idx + 1]))
        /\ (InUndo /\ target_of(run.entries[run.idx + 1]) \in DOMAIN fs)
           => KeptAt(target_of(run.entries[run.idx + 1]),
                     origin_of(run.entries[run.idx + 1])) ]_vars

\* a move whose fallback copy succeeded and whose source could not be deleted:
\* the entry is Failed and the file is at both places
C33_Witness ==
    /\ log # <<>>
    /\ log[Len(log)].operation = "move"
    /\ log[Len(log)].error = "remove failed"
    /\ \E i \in 1..Len(plan) :
         /\ plan[i].id = log[Len(log)].plan_entry_id
         /\ origin_of(plan[i]) \in DOMAIN fs
         /\ target_of(plan[i]) \in DOMAIN fs
         /\ fs[origin_of(plan[i])].content = fs[target_of(plan[i])].content

\* ------------------------------------------- execute passes on worker threads
\* execute_plan hands each call to spawn_blocking, so two run_execution calls
\* can run at once; each store call takes the Mutex for one statement only

\* the folders the passes start from: one picture, or two with the same bytes
PassFolders == { {join(image_root, <<"A", "/", "x", ".", "j">>)}, TwinPaths }

\* the inventory and the plan an earlier scan and plan left
InitPasses ==
    /\ \E present \in PassFolders :
         fs = [ p \in present \cup {NotePath} |-> [ content |-> "c1", mtime |-> T1 ] ]
    /\ dirs = InitDirs
    /\ inv = perform_scan(fs, dirs, <<>>, NoFault).inventory
    /\ LET entries == plan_loop(inv, {}, <<>>)
           r == replace_plan_entries(<<>>, <<>>, 1, entries, 0)
       IN  /\ plan = r.plan
           /\ nextId = r.next_id
           /\ plan_json = write_plan_json(entries)
           /\ meta = set_meta(set_meta(set_meta(set_meta(
                        [ k \in {"schema_version"} |-> SCHEMA_VERSION ],
                        "plan_generated_at", 1), "plan_entry_count", Len(entries)),
                        "plan_schema_version", PLAN_SCHEMA_VERSION),
                        "plan_total_bytes", sum_sizes(entries))
    /\ log = <<>>
    /\ run = IdleRun
    /\ last = Summary("init", TRUE)
    /\ seen = NoSeen
    /\ snap = NoSnap
    /\ progress = NoProgress
    /\ user_version = DB_VERSION
    /\ reply = NoReply
    /\ pass = NoPasses
    /\ foreign_keys \in BOOLEAN
    /\ hashing = NoHashing
    /\ guard = NoHolder
    /\ txn = NoTxn
    /\ waiting = NoCalls
    /\ calls = 0
    /\ envOps = 0
    /\ faults = 0

\* run_execution up to its loop, on worker w
PassBegin(w) ==
    /\ pass[w].pc = "idle" /\ calls < MaxCalls
    /\ \E mode \in {"copy", "move"} :
         LET entries == plan_entries_with_status(plan, {"Pending"}).entries
         IN  pass' = [ pass EXCEPT ![w] =
                         [ NoPass EXCEPT !.mode = mode, !.entries = entries,
                             !.pc = IF entries = <<>> THEN "idle" ELSE "check",
                             !.result = IF entries = <<>> THEN "ok" ELSE "none" ] ]
    /\ calls' = calls + 1
    /\ UNCHANGED <<hashing, foreign_keys, plan_json, guard, txn, waiting, user_version, reply, fs, dirs, inv, plan, log, meta, nextId, run, last, seen, snap, progress, envOps, faults>>

\* origin_path.exists() and target_path.exists()
PassCheck(w) ==
    /\ pass[w].pc = "check"
    /\ LET entry == pass[w].entries[pass[w].idx + 1]
       IN  pass' = [ pass EXCEPT ![w].pc = "op",
                                 ![w].origin_exists = origin_of(entry) \in DOMAIN fs,
                                 ![w].target_exists = target_of(entry) \in DOMAIN fs ]
    /\ UNCHANGED <<hashing, foreign_keys, plan_json, guard, txn, waiting, user_version, reply, fs, dirs, inv, plan, log, meta, nextId, run, last, seen, snap, progress, calls, envOps, faults>>

\* the branch the two flags select; the copy or rename finds the disk as it
\* is now, and fails when the origin has gone since the check
PassOp(w) ==
    /\ pass[w].pc = "op"
    /\ LET entry == pass[w].entries[pass[w].idx + 1]
           mode == pass[w].mode
           e == IF ~pass[w].origin_exists
                THEN exec_failure(entry, mode, fs, dirs, "origin file missing")
                ELSE IF pass[w].target_exists
                THEN exec_failure(entry, mode, fs, dirs, "target file already exists")
                ELSE IF origin_of(entry) \notin DOMAIN fs
                THEN exec_failure(entry, mode, fs,
                                  dirs \cup {path_parent(target_of(entry))}, "not found")
                ELSE exec_operation(entry, mode, "ok", fs, dirs)
       IN  /\ fs' = e.fs
           /\ dirs' = e.dirs
           /\ pass' = [ pass EXCEPT ![w].pc = "status",
                                    ![w].status = e.status,
                                    ![w].logrow = e.logrow,
                                    ![w].did = IF e.succeeded = 1
                                               THEN @ \cup {entry.id} ELSE @ ]
    /\ UNCHANGED <<hashing, foreign_keys, plan_json, guard, txn, waiting, user_version, reply, inv, plan, log, meta, nextId, run, last, seen, snap, progress, calls, envOps, faults>>

\* database.update_plan_status(entry.id, ..)?: an UPDATE that matches no row
\* is no error; a failed statement ends the call
PassStatus(w) ==
    /\ pass[w].pc = "status"
    /\ LET entry == pass[w].entries[pass[w].idx + 1]
       IN  \E fault \in {NoFault} \cup (IF MayDisturb THEN {DbFault(1)} ELSE {}) :
             /\ plan' = IF fault = NoFault
                        THEN update_plan_status(plan, entry.id, pass[w].status)
                        ELSE plan
             /\ pass' = IF fault = NoFault
                        THEN [ pass EXCEPT ![w].pc = "log" ]
                        ELSE [ pass EXCEPT ![w].pc = "idle", ![w].result = "err" ]
             /\ faults' = IF fault = NoFault THEN faults ELSE faults + 1
    /\ UNCHANGED <<hashing, foreign_keys, plan_json, guard, txn, waiting, user_version, reply, fs, dirs, inv, log, meta, nextId, run, last, seen, snap, progress, calls, envOps>>

\* database.append_operation_log(..)?, then the next entry or the return
PassLog(w) ==
    /\ pass[w].pc = "log"
    /\ LET entry == pass[w].entries[pass[w].idx + 1]
           refused == foreign_keys /\ entry.id \notin Ids(plan)
           done == pass[w].idx + 1 = Len(pass[w].entries)
       IN  /\ log' = IF refused THEN log
                     ELSE append_operation_log(log, pass[w].logrow[1])
           /\ pass' = IF refused
                      THEN [ pass EXCEPT ![w].pc = "idle", ![w].result = "err" ]
                      ELSE [ pass EXCEPT ![w].idx = @ + 1,
                                         ![w].pc = IF done THEN "idle" ELSE "check",
                                         ![w].result = IF done THEN "ok" ELSE "none" ]
           /\ meta' = IF ~refused /\ done
                      THEN set_meta(meta, "plan_schema_version", PLAN_SCHEMA_VERSION)
                      ELSE meta
    /\ UNCHANGED <<hashing, foreign_keys, plan_json, guard, txn, waiting, user_version, reply, fs, dirs, inv, plan, nextId, run, last, seen, snap, progress, calls, envOps, faults>>

NextPasses ==
    \/ \E w \in Workers :
         PassBegin(w) \/ PassCheck(w) \/ PassOp(w) \/ PassStatus(w) \/ PassLog(w)
    \/ Plan

SpecPasses == InitPasses /\ [][NextPasses]_vars

StatusOf(id) == EntryById(plan, id).status

\* worker w's call has returned an error, and it is the only call so far
StoppedAlone(w) ==
    /\ pass[w].pc = "idle" /\ pass[w].result = "err"
    /\ \A v \in Workers \ {w} : pass[v] = NoPass
    /\ last.op = "init"

\* C34: when an execute pass in move mode has stopped on an error, every entry
\* whose file it moved to the target has status Moved.
C34_StatusMatchesDisk ==
    \A w \in Workers :
        (StoppedAlone(w) /\ pass[w].mode = "move") =>
            \A id \in pass[w].did : StatusOf(id) = "moved"

\* every run_execution call has returned, none met a failing statement, and
\* the plan is the one they read
PassesOver ==
    /\ \A w \in Workers : pass[w].pc = "idle"
    /\ faults = 0
    /\ last.op = "init"

\* no entry's file operation succeeded in the calls of both workers
OnceOnly == \A w, v \in Workers : (w # v) => pass[w].did \cap pass[v].did = {}

\* no entry whose copy or move succeeded in some call has status Failed
NoneFailed == \A w \in Workers : \A id \in pass[w].did : StatusOf(id) # "failed"

\* C35: when run_execution calls of two workers have run against the same
\* store, no entry whose copy or move succeeded has status Failed, and no
\* entry's file operation succeeded in both calls.
C35_ConcurrentExecutes == PassesOver => (NoneFailed /\ OnceOnly)

\* worker w's update_plan_status statement runs in this step
StatusWritten(w) == pass[w].pc = "status" /\ pass'[w].pc = "log"

\* C36: every operation-log row names the id of a plan entry that exists, and
\* every status update is for an id that exists when it runs, also when
\* generate_plan replaces the plan under a running execute pass.
C36_LogRowsLive ==
    /\ [](\A i \in 1..Len(log) : log[i].plan_entry_id \in Ids(plan))
    /\ [][ \A w \in Workers :
             StatusWritten(w) => pass[w].entries[pass[w].idx + 1].id \in Ids(plan) ]_vars

\* the first half alone: no log row without its plan entry
LogRowsLive == \A i \in 1..Len(log) : log[i].plan_entry_id \in Ids(plan)

\* a run_execution call returns in this step without a failed I/O call
CalmReturn == InExec /\ ~run'.active /\ run'.calm

\* C37: a pass none of whose copy, rename or mkdir calls failed, dry or not,
\* reports as succeeded the entries that had their origin present and their
\* target free when it began, and as failed the others; so a dry run and an
\* execution begun in the same state and mode report the same two counts.
C37_DryRunFidelity ==
    [][ CalmReturn =>
          /\ last'.op = "exec" /\ last'.ok
          /\ last'.succeeded = run.ready
          /\ last'.failed = Len(run.entries) - run.ready ]_vars

\* an execution, not a dry run, that carried out one entry and refused another
C37_Witness ==
    /\ last.op = "exec" /\ last.ok /\ ~last.dry_run
    /\ run.kind = "exec" /\ ~run.active /\ run.calm
    /\ last.succeeded = 1 /\ last.failed = 1
    /\ run.ready = 1

\* a step of run_execution or of undo_moves: the call itself or a turn of its loop
ExecOrUndoStep ==
    \/ run.active
    \/ calls' = calls + 1 /\ last'.op \in {"exec", "undo", "running"}

\* a plan entry without its status
Unstated(e) == [ e EXCEPT !.status = "any" ]

\* C38: execute and undo leave the inventory alone and change nothing of the
\* plan entries but their status: the entries, their ids, origins and targets
\* stay; a scan leaves the plan entries and the operation log as they are.
C38_StageFrames ==
    [][ /\ ExecOrUndoStep =>
             /\ inv' = inv
             /\ Len(plan') = Len(plan)
             /\ \A i \in 1..Len(plan) : Unstated(plan'[i]) = Unstated(plan[i])
        /\ (calls' = calls + 1 /\ last'.op = "scan") =>
             /\ plan' = plan
             /\ log' = log ]_vars

\* a scan after an execution: the entry it moved and its log row are still there
C38_Witness ==
    /\ last.op = "scan" /\ last.ok
    /\ log # <<>>
    /\ \E i \in 1..Len(plan) : plan[i].status = "moved"

\* the plan metadata, where present, describes the stored plan entries
MetaAgrees ==
    /\ ("plan_entry_count" \in DOMAIN meta) => meta["plan_entry_count"] = Len(plan)
    /\ ("plan_total_bytes" \in DOMAIN meta) => meta["plan_total_bytes"] = sum_sizes(plan)

\* C39: plan_entry_count, when present, is the number of stored plan entries
\* and plan_total_bytes the sum of their sizes; an initialize that finds them
\* so leaves them so.
C39_MetaAfterInitialize ==
    [][ (MetaAgrees /\ calls' = calls + 1 /\ last'.op = "initialize" /\ last'.ok)
          => MetaAgrees' ]_vars

\* ------------------------------------------------- the hashing fan-out alone
\* hash_and_extract hands the snapshots to rayon's thread pool; each closure
\* hashes its file, takes its number from the shared counter, and then calls
\* the callback

\* the threads of the pool
HashThreads == 1..2

\* nothing is held by any thread
NoHeld == [ t \in HashThreads |-> <<>> ]

\* a scan has come to hash_and_extract with the files of the folder to hash
InitHash ==
    /\ \E present \in SUBSET RootPaths :
         fs = [ p \in present |-> [ content |-> "c1", mtime |-> T1 ] ]
    /\ dirs = InitDirs
    /\ inv = <<>>
    /\ plan = <<>>
    /\ log = <<>>
    /\ meta = [ k \in {"schema_version"} |-> SCHEMA_VERSION ]
    /\ nextId = 1
    /\ run = IdleRun
    /\ last = Summary("running", TRUE)
    /\ seen = NoSeen
    /\ snap = NoSnap
    /\ progress = NoProgress
    /\ user_version = DB_VERSION
    /\ reply = NoReply
    /\ pass = NoPasses
    /\ foreign_keys = TRUE
    /\ hashing = [ total |-> Cardinality(DOMAIN fs), counter |-> 0,
                   todo |-> { SubSeq(p, Len(image_root) + 2, Len(p)) : p \in DOMAIN fs },
                   held |-> NoHeld, delivered |-> <<>>, done |-> FALSE ]
    /\ plan_json = NoPlanJson
    /\ guard = NoHolder
    /\ txn = NoTxn
    /\ waiting = NoCalls
    /\ calls = 0
    /\ envOps = 0
    /\ faults = 0

\* a thread takes a snapshot, hashes it and draws its number:
\* counter.fetch_add(1, Ordering::Relaxed) + 1
HashCount(t) ==
    /\ ~hashing.done /\ hashing.held[t] = <<>>
    /\ \E p \in hashing.todo :
         hashing' = [ hashing EXCEPT
                        !.todo = @ \ {p},
                        !.counter = @ + 1,
                        !.held[t] = << [ processed |-> hashing.counter + 1,
                                         total |-> hashing.total, current |-> p ] >> ]
    /\ UNCHANGED <<pass, foreign_keys, plan_json, guard, txn, waiting, user_version, reply, fs, dirs, inv, plan, log, meta, nextId, run, last, seen, snap, progress, calls, envOps, faults>>

\* the thread calls emit_progress with the number it drew
HashEmit(t) ==
    /\ hashing.held[t] # <<>>
    /\ LET payload == hashing.held[t][1]
       IN  /\ hashing' = [ hashing EXCEPT !.held[t] = <<>>,
                                          !.delivered = Append(@, payload) ]
           /\ progress' = emit_progress(progress, "hash", payload.processed,
                                        payload.total, payload.current)
    /\ UNCHANGED <<pass, foreign_keys, plan_json, guard, txn, waiting, user_version, reply, fs, dirs, inv, plan, log, meta, nextId, run, last, seen, snap, calls, envOps, faults>>

\* collect() has joined every closure: the closing call (total, total, None)
HashClose ==
    /\ ~hashing.done /\ hashing.todo = {} /\ hashing.held = NoHeld
    /\ hashing' = [ hashing EXCEPT
                      !.done = TRUE,
                      !.delivered = Append(@, [ processed |-> hashing.total,
                                                total |-> hashing.total,
                                                current |-> None ]) ]
    /\ progress' = emit_progress(progress, "hash", hashing.total, hashing.total, None)
    /\ UNCHANGED <<pass, foreign_keys, plan_json, guard, txn, waiting, user_version, reply, fs, dirs, inv, plan, log, meta, nextId, run, last, seen, snap, calls, envOps, faults>>

NextHash == (\E t \in HashThreads : HashCount(t) \/ HashEmit(t)) \/ HashClose

SpecHash == InitHash /\ [][NextHash]_vars

\* the closing call of the hash stage comes after every per-file call
ClosingCallLast ==
    \A i \in 1..Len(hashing.delivered) :
        (hashing.delivered[i].current = None) => i = Len(hashing.delivered)

\* the processed values reach the callback in non-decreasing order
DeliveredInOrder ==
    \A i, j \in 1..Len(hashing.delivered) :
        (i < j) => hashing.delivered[i].processed <= hashing.delivered[j].processed

\* C40: the processed values the callback receives within the hash stage never
\* decrease, and the closing call (total, total, none) comes after every
\* per-file call.
C40_ProgressMonotone == DeliveredInOrder /\ ClosingCallLast

====
